---------------------------- MODULE Spec2Model ----------------------------
(***************************************************************************)
(* A model of coa-rag: the knowledge-graph store (src/src/extract.py), the *)
(* Chain-of-Agents orchestrator and synthesis stream (src/src/coa.py) and  *)
(* the web-socket question handler and upload endpoints (src/web/app.py).  *)
(*                                                                         *)
(* Two specifications:                                                     *)
(*   Spec       one web-socket session: questions are routed, SPECIFIC     *)
(*              ones run the orchestrator on a pool thread while the event *)
(*              loop forwards progress, then the synthesis is streamed.    *)
(*   SpecGraph  two concurrent HTTP requests (upload / re-extract) doing   *)
(*              load -> merge -> detect conflicts -> save on the graph     *)
(*              file.                                                      *)
(***************************************************************************)
EXTENDS Integers, Sequences, FiniteSets, TLC

(***************************************************************************)
(* Bounds of the model (not program constants).                            *)
(***************************************************************************)
MaxQuestions == 2
MaxTextLen == 12
MaxDelta == 4

(***************************************************************************)
(* Program constants.                                                      *)
(***************************************************************************)
NWorkers == 4
FallbackChunkSize == 10
GraphChunkSize == 50
NoDocsMessageLen == 68
PeopleListLimit == 15

VARIABLES
    \* ---- the graph file and the HTTP requests that rewrite it (SpecGraph)
    graphFile,      \* data/extracted.json: [state: absent|corrupt|ok, data]
    rpc,            \* request -> position in its endpoint
    rkind,          \* request -> "upload" | "reextract"
    rextraction,    \* request -> the extraction its LLM call returned
    rdata,          \* request -> its local all_data
    \* ---- one web-socket session (Spec)
    apiKeySet,      \* OPENAI_API_KEY is not the placeholder
    hasStore,       \* .state.json holds a vector_store_id
    qn,             \* questions received so far
    question,       \* the question being handled
    hpc,            \* position of handle_streaming_question
    events,         \* messages handed to manager.send_* for this question
    response,       \* EXHAUSTIVE path: the answer text; SPECIFIC: the chunks
    sent,           \* how much of response has been sent as chunk events
    \* ---- the pool thread running coa_report_with_progress
    tpc,            \* position of the orchestrator
    wi,             \* the loop variable i (0-based)
    search_queries,
    expanded,
    worker_outputs,
    manager_input,  \* "none" or the reduction input
    progressCalls,  \* on_progress calls made, with what had completed then
    callLog,        \* completion / search calls issued, in order
    threwAt,        \* 0, or the worker (1-based) whose search call threw
    \* ---- the event loop
    loopReady,      \* callbacks scheduled with call_soon_threadsafe (FIFO)
    progress_queue, \* asyncio.Queue
    taskDone,       \* worker_task.done()
    \* ---- stream_manager_response (a generator run on a pool thread)
    gpc,            \* position of the generator
    fullText,       \* length of the text the completion service holds
    spos,           \* characters the streaming channel has delivered
    fragments,      \* fragments yielded so far
    streamFailed,   \* the streaming channel threw
    fallbackFailed  \* the blocking fallback call threw

graphVars == <<graphFile, rpc, rkind, rextraction, rdata>>
sessionVars == <<apiKeySet, hasStore, qn, question, hpc, events, response, sent>>
threadVars == <<tpc, wi, search_queries, expanded, worker_outputs, manager_input,
                progressCalls, callLog, threwAt>>
loopVars == <<loopReady, progress_queue, taskDone>>
genVars == <<gpc, fullText, spos, fragments, streamFailed, fallbackFailed>>
vars == <<graphVars, sessionVars, threadVars, loopVars, genVars>>

(***************************************************************************)
(* Generic helpers.                                                        *)
(***************************************************************************)
Range(s) == {s[i] : i \in DOMAIN s}

Min(a, b) == IF a < b THEN a ELSE b

RECURSIVE FlattenSeq(_)
FlattenSeq(ss) ==
    IF ss = <<>> THEN <<>> ELSE Head(ss) \o FlattenSeq(Tail(ss))

(***************************************************************************)
(* THE KNOWLEDGE GRAPH (src/src/extract.py)                                *)
(*                                                                         *)
(* A name or a text is a sequence of words.  An entity's source is a       *)
(* string or a list of strings: [isList, items], a string s being          *)
(* [isList |-> FALSE, items |-> <<s>>] and "" being items = <<>>.          *)
(* A description is identified by the document it came from and its        *)
(* length, which is all the code reads of it.                              *)
(***************************************************************************)
Docs == {"d1", "d2"}

Lower(w) ==
    CASE w = "Amanda" -> "amanda"
      [] w = "Bob" -> "bob"
      [] w = "X" -> "x"
      [] w = "Y" -> "y"
      [] w = "Who" -> "who"
      [] w = "List" -> "list"
      [] w = "Lynn" -> "lynn"
      [] w = "Plasse" -> "plasse"
      [] w = "Zed" -> "zed"
      [] OTHER -> w

LowerText(t) == [i \in DOMAIN t |-> Lower(t[i])]

\* A name is its words joined by single blanks; an empty word at either end
\* stands for one more blank there (<<"Bob", "">> is "Bob" and one blank).
RECURSIVE LStrip(_)
LStrip(t) == IF t # <<>> /\ Head(t) = "" THEN LStrip(Tail(t)) ELSE t

RECURSIVE RStrip(_)
RStrip(t) ==
    IF t # <<>> /\ t[Len(t)] = "" THEN RStrip(SubSeq(t, 1, Len(t) - 1)) ELSE t

\* str.strip()
Strip(t) == RStrip(LStrip(t))

\* name.lower().strip(); "" for an empty name
_normalize_name(name) == Strip(LowerText(name))

StrSource(d) == [isList |-> FALSE, items |-> <<d>>]

\* the source's empty shape has no "key_facts" key; every reader takes it
\* with .get(..., []) or .setdefault(..., []), so an absent key reads as []
_empty_extraction ==
    [documents |-> <<>>, entities |-> <<>>, claims |-> <<>>, events |-> <<>>,
     key_facts |-> <<>>, conflicts |-> <<>>]

\* what json.loads(EXTRACTED_PATH.read_text()) raises: read_text raises
\* on bytes that are not UTF-8, json.loads on a text that is not JSON
LoadTry(file) ==
    CASE file.state = "undecodable" -> "UnicodeDecodeError"
      [] file.state = "corrupt" -> "JSONDecodeError"
      [] OTHER -> "none"

\* except json.JSONDecodeError
LoadCatches(exc) == exc = "JSONDecodeError"

\* the exception that leaves load_extracted, or "none"
LoadRaised(file) ==
    IF file.state # "absent" /\ ~LoadCatches(LoadTry(file)) THEN LoadTry(file) ELSE "none"

\* the value load_extracted returns when it returns: json.loads of the file
\* when it exists and parses, whatever JSON value that is, else the empty
\* shape
load_extracted(file) ==
    IF file.state = "absent" THEN _empty_extraction
    ELSE IF LoadTry(file) # "none" THEN _empty_extraction
    ELSE file.data

\* the file after save_extracted(data)
SavedFile(data) == [state |-> "ok", data |-> data]

AbsentFile == [state |-> "absent", data |-> _empty_extraction]

CorruptFile == [state |-> "corrupt", data |-> _empty_extraction]

\* a file whose bytes are not valid UTF-8
UndecodableFile == [state |-> "undecodable", data |-> _empty_extraction]

\* files holding a JSON value that is not an object: [] and null
NonGraphFiles ==
    { [state |-> "nongraph", data |-> [json |-> v]] : v \in {"array", "null"} }

Ent(name, type, d, len, mentions) ==
    [name |-> name, type |-> type, description |-> [by |-> d, len |-> len],
     mentions |-> mentions, source |-> StrSource(d)]

Claim(subject, text, d) == [subject |-> subject, claim |-> text, source |-> d]

Event(date, d) == [date |-> date, description |-> <<"ev", d>>, source |-> d]

Fact(d) == [fact |-> <<"fact", d>>, source |-> d]

\* the exception branches of extract_from_document
FailedExtraction ==
    [entities |-> <<>>, claims |-> <<>>, events |-> <<>>, key_facts |-> <<>>]

\* what extract_from_document can return for document d: every item tagged
\* with source d
ExtractionsOf(d) ==
    { FailedExtraction,
      [entities |-> <<Ent(<<"Amanda">>, "Person", d, 1, {<<"m1", d>>})>>,
       claims |-> <<Claim(<<"X">>, <<"says", d>>, d)>>,
       events |-> <<Event("unknown", d)>>,
       key_facts |-> <<Fact(d)>>],
      [entities |-> <<Ent(<<"amanda">>, "Person", d, 2, {<<"m2", d>>}),
                      Ent(<<"Bob">>, "Organization", d, 1, {})>>,
       claims |-> <<Claim(<<"x">>, <<"a">>, d), Claim(<<"Y">>, <<"c">>, d)>>,
       events |-> <<Event("2020", d)>>,
       key_facts |-> <<>>] }

\* an index keyed by the names as written
ExistingIndex_CaseSensitive(entities, normalized) ==
    LET hits == {i \in DOMAIN entities : entities[i].name = normalized}
    IN IF hits = {} THEN 0 ELSE CHOOSE i \in hits : \A j \in hits : j <= i

\* existing_entities[normalized]: the dict comprehension keeps the last
\* index of a normalized name; appended entities are registered as they come
ExistingIndex(entities, normalized) ==
    LET hits == {i \in DOMAIN entities : _normalize_name(entities[i].name) = normalized}
    IN IF hits = {} THEN 0 ELSE CHOOSE i \in hits : \A j \in hits : j <= i

\* "Add source if different"
MergeSource(existing_source, new_source) ==
    IF existing_source.isList
    THEN IF new_source \in Range(existing_source.items)
         THEN existing_source
         ELSE [existing_source EXCEPT !.items = Append(@, new_source)]
    ELSE IF existing_source.items = <<new_source>>
         THEN existing_source
         ELSE IF existing_source.items = <<>>
              THEN StrSource(new_source)
              ELSE [isList |-> TRUE, items |-> Append(existing_source.items, new_source)]

MergeOneEntity(entities, new_entity) ==
    LET idx == ExistingIndex(entities, _normalize_name(new_entity.name))
    IN IF idx = 0
       THEN Append(entities, new_entity)
       ELSE LET existing == entities[idx]
                merged ==
                    [existing EXCEPT
                       !.mentions = @ \cup new_entity.mentions,
                       !.source = MergeSource(@, new_entity.source.items[1]),
                       !.description = IF new_entity.description.len > @.len
                                       THEN new_entity.description ELSE @]
            IN [entities EXCEPT ![idx] = merged]

RECURSIVE MergeEntities(_, _)
MergeEntities(entities, new_entities) ==
    IF new_entities = <<>> THEN entities
    ELSE MergeEntities(MergeOneEntity(entities, Head(new_entities)), Tail(new_entities))

merge_extraction(all_data, new_extraction, doc_name) ==
    [all_data EXCEPT
       !.documents = IF doc_name \in Range(@) THEN @ ELSE Append(@, doc_name),
       !.entities = MergeEntities(@, new_extraction.entities),
       !.claims = @ \o new_extraction.claims,
       !.events = @ \o new_extraction.events,
       !.key_facts = @ \o new_extraction.key_facts]

\* claim.get("subject", "").lower().strip()
SubjectKey(claim) == Strip(LowerText(claim.subject))

\* a grouping that opens one group per claim
SubjectsInOrder_PerClaim(claims, seen) ==
    [i \in DOMAIN claims |-> SubjectKey(claims[i])]

\* subjects in order of first appearance (dict insertion order)
RECURSIVE SubjectsInOrder(_, _)
SubjectsInOrder(claims, seen) ==
    IF claims = <<>> THEN <<>>
    ELSE LET s == SubjectKey(Head(claims))
         IN IF s = <<>> \/ s \in seen
            THEN SubjectsInOrder(Tail(claims), seen)
            ELSE <<s>> \o SubjectsInOrder(Tail(claims), seen \cup {s})

HeuristicConflict(claims, subject) ==
    LET subject_claims == SelectSeq(claims, LAMBDA c : SubjectKey(c) = subject)
        sources == {subject_claims[i].source : i \in DOMAIN subject_claims}
        unique_claim_texts == {LowerText(subject_claims[i].claim) : i \in DOMAIN subject_claims}
    IN IF (Cardinality(sources) > 1 \/ Len(subject_claims) > 1)
          /\ Cardinality(unique_claim_texts) > 1
       THEN <<[subject |-> subject, type |-> "potential_inconsistency",
               claim_indices |-> <<>>,
               claims |-> subject_claims, sources |-> sources]>>
       ELSE <<>>

RECURSIVE HeuristicConflicts(_, _)
HeuristicConflicts(claims, subjects) ==
    IF subjects = <<>> THEN <<>>
    ELSE HeuristicConflict(claims, Head(subjects)) \o HeuristicConflicts(claims, Tail(subjects))

\* what the completion service may answer to the conflict prompt: an error
\* or unparsable text, or a JSON array of conflicts citing claim numbers
LlmConflictAnswers ==
    { [ok |-> FALSE, conflicts |-> <<>>],
      [ok |-> TRUE, conflicts |-> <<>>],
      [ok |-> TRUE, conflicts |-> <<[claim_indices |-> <<1, 2>>, type |-> "contradiction"]>>] }

\* claims_sample[i] for i in indices if i < len(claims_sample): Python
\* indexes from 0, so index i is element i + 1 here
EnrichConflict(claims_sample, conflict) ==
    LET kept == SelectSeq(conflict.claim_indices, LAMBDA i : i < Len(claims_sample))
        cs == [k \in DOMAIN kept |-> claims_sample[kept[k] + 1]]
    IN [subject |-> <<>>, type |-> conflict.type,
        claim_indices |-> conflict.claim_indices, claims |-> cs,
        sources |-> {cs[k].source : k \in DOMAIN cs}]

_detect_conflicts_with_llm(claims, answer) ==
    IF Len(claims) < 2 \/ ~answer.ok THEN <<>>
    ELSE LET claims_sample == SubSeq(claims, 1, Min(Len(claims), 50))
         IN [k \in DOMAIN answer.conflicts |->
                EnrichConflict(claims_sample, answer.conflicts[k])]

\* client and model are always passed by the endpoints
detect_conflicts(all_data, answer) ==
    LET claims == all_data.claims
    IN IF Len(claims) < 2 THEN <<>>
       ELSE HeuristicConflicts(claims, SubjectsInOrder(claims, {}))
            \o _detect_conflicts_with_llm(claims, answer)

\* e.get("source") != doc_name: a list source never equals a string
remove_document_extraction(file, doc_name) ==
    LET all_data == load_extracted(file)
    IN [all_data EXCEPT
          !.documents = SelectSeq(@, LAMBDA d : d # doc_name),
          !.entities = SelectSeq(@, LAMBDA e : e.source # StrSource(doc_name)),
          !.claims = SelectSeq(@, LAMBDA c : c.source # doc_name),
          !.events = SelectSeq(@, LAMBDA e : e.source # doc_name),
          !.key_facts = SelectSeq(@, LAMBDA f : f.source # doc_name),
          !.conflicts = <<>>]

(***************************************************************************)
(* Two concurrent requests on the event loop (src/web/app.py).  Code       *)
(* between two awaits runs atomically; run_in_executor is an await.        *)
(***************************************************************************)
Requests == {"r1", "r2"}

ReqDoc(r) == IF r = "r1" THEN "d1" ELSE "d2"

\* a graph file left by an earlier upload of d2
SeededGraph ==
    merge_extraction(_empty_extraction,
                     [entities |-> <<Ent(<<"Amanda">>, "Person", "d2", 1, {<<"m0", "d2">>})>>,
                      claims |-> <<Claim(<<"X">>, <<"old">>, "d2")>>,
                      events |-> <<Event("1999", "d2")>>,
                      key_facts |-> <<Fact("d2")>>],
                     "d2")

GraphInit ==
    /\ graphFile \in {AbsentFile, CorruptFile, SavedFile(SeededGraph)}
    /\ rpc = [r \in Requests |-> "start"]
    /\ rkind \in [Requests -> {"upload", "reextract"}]
    /\ rextraction = [r \in Requests |-> FailedExtraction]
    /\ rdata = [r \in Requests |-> _empty_extraction]

\* reextract_document up to its first await: remove_document_extraction
\* loads, filters and saves
ReqRemove(r) ==
    /\ rpc[r] = "start"
    /\ rkind[r] = "reextract"
    /\ graphFile' = SavedFile(remove_document_extraction(graphFile, ReqDoc(r)))
    /\ rpc' = [rpc EXCEPT ![r] = "extract"]
    /\ UNCHANGED <<rkind, rextraction, rdata, sessionVars, threadVars, loopVars, genVars>>

\* await loop.run_in_executor(executor, extract_from_document)
ReqExtract(r) ==
    /\ \/ rpc[r] = "start" /\ rkind[r] = "upload"
       \/ rpc[r] = "extract"
    /\ \E ex \in ExtractionsOf(ReqDoc(r)) :
          rextraction' = [rextraction EXCEPT ![r] = ex]
    /\ rpc' = [rpc EXCEPT ![r] = "merge"]
    /\ UNCHANGED <<graphFile, rkind, rdata, sessionVars, threadVars, loopVars, genVars>>

\* all_data = load_extracted(); all_data = merge_extraction(...); then the
\* endpoint awaits detect_conflicts on the pool
ReqLoadMerge(r) ==
    /\ rpc[r] = "merge"
    /\ rdata' = [rdata EXCEPT ![r] =
                    merge_extraction(load_extracted(graphFile), rextraction[r], ReqDoc(r))]
    /\ rpc' = [rpc EXCEPT ![r] = "detect"]
    /\ UNCHANGED <<graphFile, rkind, rextraction, sessionVars, threadVars, loopVars, genVars>>

\* detect_conflicts on the pool thread, over the request's own all_data
ReqDetect(r) ==
    /\ rpc[r] = "detect"
    /\ \E answer \in LlmConflictAnswers :
          rdata' = [rdata EXCEPT ![r].conflicts = detect_conflicts(rdata[r], answer)]
    /\ rpc' = [rpc EXCEPT ![r] = "save"]
    /\ UNCHANGED <<graphFile, rkind, rextraction, sessionVars, threadVars, loopVars, genVars>>

\* save_extracted(all_data) once the await returns
ReqSave(r) ==
    /\ rpc[r] = "save"
    /\ graphFile' = SavedFile(rdata[r])
    /\ rpc' = [rpc EXCEPT ![r] = "done"]
    /\ UNCHANGED <<rkind, rextraction, rdata, sessionVars, threadVars, loopVars, genVars>>

(***************************************************************************)
(* Deduplication and document deletion (src/src/extract.py, src/web/app.py) *)
(***************************************************************************)
\* characters of one word
WordLen(w) ==
    CASE w = "" -> 0
      [] w \in {"X", "Y", "x", "y"} -> 1
      [] w \in {"Bob", "bob", "Zed", "zed", "Who", "who"} -> 3
      [] w \in {"Lynn", "lynn", "List", "list"} -> 4
      [] OTHER -> 6

RECURSIVE SumWordLen(_)
SumWordLen(t) == IF t = <<>> THEN 0 ELSE WordLen(Head(t)) + SumWordLen(Tail(t))

\* len(name): the words and the blanks between them
NameLen(name) == IF name = <<>> THEN 0 ELSE SumWordLen(name) + Len(name) - 1

\* n1 in n2, on normalized names
IsSubstring(n1, n2) ==
    \E i \in 1..(Len(n2) - Len(n1) + 1) : SubSeq(n2, i, i + Len(n1) - 1) = n1

_names_match(name1, name2) ==
    LET n1 == _normalize_name(name1)
        n2 == _normalize_name(name2)
    IN IF n1 = <<>> \/ n2 = <<>> THEN FALSE
       ELSE IF n1 = n2 THEN TRUE
       ELSE /\ IsSubstring(n1, n2) \/ IsSubstring(n2, n1)
            /\ Range(n1) \subseteq Range(n2) \/ Range(n2) \subseteq Range(n1)

\* the first entry of merged with the entity's type and a matching name, or 0
MatchIdx(merged, entity) ==
    LET hits == {i \in DOMAIN merged :
                    /\ merged[i].type = entity.type
                    /\ _names_match(entity.name, merged[i].name)}
    IN IF hits = {} THEN 0 ELSE CHOOSE i \in hits : \A j \in hits : i <= j

\* a source as an element of a source list: a list source is appended whole,
\* as one nested element
SourceItem(source) ==
    IF source.isList THEN ToString(source.items) ELSE source.items[1]

\* "Merge sources"
DedupSource(existing_source, new_source) ==
    IF new_source.items = <<>> THEN existing_source
    ELSE IF existing_source.isList
         THEN IF SourceItem(new_source) \in Range(existing_source.items)
              THEN existing_source
              ELSE [existing_source EXCEPT !.items = Append(@, SourceItem(new_source))]
         ELSE IF existing_source.items # <<>>
              THEN IF new_source # existing_source
                   THEN [isList |-> TRUE,
                         items |-> <<existing_source.items[1], SourceItem(new_source)>>]
                   ELSE existing_source
              ELSE new_source

DedupOneEntity(merged, entity) ==
    LET match_idx == MatchIdx(merged, entity)
    IN IF match_idx = 0
       THEN Append(merged, entity)
       ELSE LET existing == merged[match_idx]
            IN [merged EXCEPT ![match_idx] =
                  [existing EXCEPT
                     !.mentions = @ \cup entity.mentions,
                     !.source = DedupSource(@, entity.source),
                     !.name = IF NameLen(entity.name) > NameLen(@)
                              THEN entity.name ELSE @,
                     !.description = IF entity.description.len > @.len
                                     THEN entity.description ELSE @]]

RECURSIVE DedupEntities(_, _)
DedupEntities(merged, entities) ==
    IF entities = <<>> THEN merged
    ELSE DedupEntities(DedupOneEntity(merged, Head(entities)), Tail(entities))

deduplicate_entities(entities) == DedupEntities(<<>>, entities)

deduplicate_extracted_data(all_data) ==
    [all_data EXCEPT !.entities = deduplicate_entities(@)]

\* POST /api/extraction/deduplicate: load, deduplicate, save, with no await
\* in between
ReqDeduplicate(r) ==
    /\ rpc[r] = "start"
    /\ rkind[r] = "deduplicate"
    /\ graphFile' = SavedFile(deduplicate_extracted_data(load_extracted(graphFile)))
    /\ rpc' = [rpc EXCEPT ![r] = "done"]
    /\ UNCHANGED <<rkind, rextraction, rdata, sessionVars, threadVars, loopVars, genVars>>

\* DELETE /api/documents/{file_id}: the file is deleted at the file service
\* and its id dropped from .state.json (which is outside the modelled
\* state); when the service call raises, the handler answers 500.  Neither
\* branch reads or writes the graph file.
ReqDelete(r) ==
    /\ rpc[r] = "start"
    /\ rkind[r] = "delete"
    /\ \E raised \in BOOLEAN :
          rpc' = [rpc EXCEPT ![r] = IF raised THEN "failed" ELSE "deleted"]
    /\ UNCHANGED <<graphFile, rkind, rextraction, rdata, sessionVars, threadVars,
                   loopVars, genVars>>

\* the three GET endpoints that read the graph
ReadKinds == {"get_extraction_status", "get_conflicts", "get_entities"}

\* how a read endpoint ends when its try body raises: get_conflicts and
\* get_entities answer 500, get_extraction_status answers a status "error"
ReadFailure(kind) ==
    IF kind = "get_extraction_status" THEN "error_status" ELSE "failed"

\* GET /api/extraction, /api/extraction/conflicts, /api/extraction/entities:
\* load_extracted, then extracted_data.get; any exception is caught, also
\* the AttributeError of .get on a value that is not a dict
ReqRead(r) ==
    /\ rpc[r] = "start"
    /\ rkind[r] \in ReadKinds
    /\ IF LoadRaised(graphFile) # "none"
       THEN /\ rpc' = [rpc EXCEPT ![r] = ReadFailure(rkind[r])]
            /\ UNCHANGED rdata
       ELSE /\ rdata' = [rdata EXCEPT ![r] = load_extracted(graphFile)]
            /\ rpc' = [rpc EXCEPT ![r] =
                          IF graphFile.state = "nongraph"
                          THEN ReadFailure(rkind[r]) ELSE "done"]
    /\ UNCHANGED <<graphFile, rkind, rextraction, sessionVars, threadVars, loopVars,
                   genVars>>

\* a graph left by uploads of d2 and d1 whose claims about X differ
ConflictedGraph ==
    LET g == merge_extraction(SeededGraph,
                 [entities |-> <<Ent(<<"Amanda", "Lynn", "Plasse">>, "Person", "d1", 2, {<<"m1", "d1">>}),
                                 Ent(<<"Bob">>, "Organization", "d1", 1, {})>>,
                  claims |-> <<Claim(<<"X">>, <<"says", "d1">>, "d1")>>,
                  events |-> <<Event("2020", "d1")>>,
                  key_facts |-> <<Fact("d1")>>],
                 "d1")
    IN [g EXCEPT !.conflicts = detect_conflicts(g, [ok |-> FALSE, conflicts |-> <<>>])]

\* entity lists a graph file may hold when the deduplicate endpoint is called
EntityLists ==
    { <<Ent(<<"Lynn">>, "Person", "d1", 1, {}),
        Ent(<<"Amanda">>, "Person", "d1", 1, {}),
        Ent(<<"Amanda", "Lynn">>, "Person", "d2", 2, {})>>,
      <<Ent(<<"Bob">>, "Person", "d1", 1, {}),
        Ent(<<"Bob">>, "Organization", "d2", 1, {}),
        Ent(<<"bob">>, "Person", "d2", 2, {<<"m2", "d2">>})>>,
      <<Ent(<<"Lynn">>, "Person", "d1", 1, {}),
        Ent(<<"Amanda">>, "Person", "d1", 1, {}),
        Ent(<<"Amanda", "Lynn">>, "Person", "d2", 2, {}),
        Ent(<<"Amanda", "", "", "", "", "", "">>, "Person", "d2", 1, {})>>,
      <<Ent(<<>>, "Person", "d1", 1, {}),
        Ent(<<>>, "Person", "d2", 1, {})>> }

MaintFiles ==
    { AbsentFile, SavedFile(SeededGraph), SavedFile(ConflictedGraph) }
    \cup { SavedFile([_empty_extraction EXCEPT !.documents = <<"d1", "d2">>,
                                               !.entities = es]) : es \in EntityLists }

MaintInit ==
    /\ graphFile \in MaintFiles
    /\ rpc = [r \in Requests |-> "start"]
    /\ rkind \in [Requests -> {"upload", "reextract", "deduplicate", "delete"}]
    /\ rextraction = [r \in Requests |-> FailedExtraction]
    /\ rdata = [r \in Requests |-> _empty_extraction]

(***************************************************************************)
(* QUESTIONS.  A question is represented by what the code reads of it: its *)
(* word count, the outcome of each keyword / pattern test, and the         *)
(* candidate names the two regular expressions of _extract_potential_names *)
(* find in it.                                                             *)
(***************************************************************************)
Q(id, nwords, indicator, caps, comprehensive, entityLookup, names, deep) ==
    [id |-> id, nwords |-> nwords, indicator |-> indicator, caps |-> caps,
     comprehensive |-> comprehensive, entityLookup |-> entityLookup,
     names |-> names, deep |-> deep]

NoQuestion == Q("", 0, FALSE, 0, FALSE, FALSE, <<>>, FALSE)

Questions ==
    { \* "List all people mentioned in the documents"
      Q("list-people", 7, FALSE, 0, TRUE, FALSE, << <<"List">> >>, FALSE),
      \* "Who is Amanda Lynn Plasse?"
      Q("who-is-amanda", 5, FALSE, 3, FALSE, TRUE,
        << <<"Who">>, <<"Amanda", "Lynn", "Plasse">> >>, FALSE),
      \* "Why did the suspect leave the building at midnight?"
      Q("why-did", 9, FALSE, 0, FALSE, FALSE, << <<"Why">> >>, TRUE),
      \* "What is the relationship between Amanda and Zed in the 2020 report"
      Q("relationship", 12, TRUE, 2, FALSE, FALSE,
        << <<"What">>, <<"Amanda">>, <<"Zed">> >>, FALSE),
      \* "tell me about zed"
      Q("about-zed", 4, FALSE, 0, FALSE, TRUE, <<>>, FALSE),
      \* "Compare Amanda and Bob"
      Q("compare-short", 4, TRUE, 2, FALSE, FALSE,
        << <<"Compare", "Amanda">>, <<"Bob">> >>, FALSE),
      \* "Who is Zed?"
      Q("who-is-zed", 3, FALSE, 1, FALSE, TRUE, << <<"Who">>, <<"Zed">> >>, FALSE),
      \* "Who is Zed and why did everyone leave?"
      Q("who-is-zed-everyone", 8, TRUE, 1, TRUE, TRUE,
        << <<"Who">>, <<"Zed">> >>, TRUE) }

(***************************************************************************)
(* THE ROUTER (src/src/router.py)                                          *)
(***************************************************************************)
\* graph snapshots classify_query may be handed: no entity, one entity, and
\* several entities of one or more words
GraphSnapshots ==
    { _empty_extraction, SeededGraph }
    \cup { [_empty_extraction EXCEPT !.documents = <<"d1">>, !.entities = es] : es \in
             { <<Ent(<<"Amanda", "Lynn", "Plasse">>, "Person", "d1", 1, {})>>,
               <<Ent(<<"Bob">>, "Person", "d1", 1, {}),
                 Ent(<<"Zed">>, "Person", "d1", 1, {})>>,
               <<Ent(<<"Lynn", "Bob">>, "Person", "d1", 1, {})>>,
               <<Ent(<<>>, "Person", "d1", 1, {})>> } }

\* a matcher that knows the exact match only
NameMatchesEntity_ExactOnly(name, entity) ==
    LowerText(name) = LowerText(entity.name)

\* one name against one entity name, the four tests of the inner loop
NameMatchesEntity(name, entity) ==
    LET name_normalized == LowerText(name)
        entity_normalized == LowerText(entity.name)
        name_words == Range(name_normalized)
        entity_words == Range(entity_normalized)
    IN \/ name_normalized = entity_normalized
       \/ name_words # {} /\ name_words \subseteq entity_words
       \/ entity_words # {} /\ entity_words \subseteq name_words
       \/ /\ Cardinality(name_words) = 1
          /\ Cardinality(entity_words) > 1
          /\ name_words \cap entity_words # {}

_find_matching_entities(names, entities) ==
    SelectSeq(entities, LAMBDA e : \E i \in DOMAIN names : NameMatchesEntity(names[i], e))

\* a router that tries the entity lookup before the comprehensive patterns
classify_query_EntityFirst(q, extracted_data) ==
    IF q.entityLookup /\ extracted_data.entities # <<>>
    THEN IF q.names # <<>>
         THEN IF _find_matching_entities(q.names, extracted_data.entities) # <<>>
              THEN "EXHAUSTIVE" ELSE "SPECIFIC"
         ELSE "EXHAUSTIVE"
    ELSE IF q.comprehensive THEN "EXHAUSTIVE" ELSE "SPECIFIC"

\* a router that sends a lookup without a name to the document search
classify_query_NoNameToSearch(q, extracted_data) ==
    IF q.comprehensive THEN "EXHAUSTIVE"
    ELSE IF q.entityLookup /\ extracted_data.entities # <<>>
         THEN IF q.names # <<>>
              THEN IF _find_matching_entities(q.names, extracted_data.entities) # <<>>
                   THEN "EXHAUSTIVE" ELSE "SPECIFIC"
              ELSE "SPECIFIC"
         ELSE "SPECIFIC"

\* lines 260-315; step 3 and step 4 both return SPECIFIC
classify_query(q, extracted_data) ==
    IF q.comprehensive THEN "EXHAUSTIVE"
    ELSE IF q.entityLookup /\ extracted_data.entities # <<>>
         THEN IF q.names # <<>>
              THEN IF _find_matching_entities(q.names, extracted_data.entities) # <<>>
                   THEN "EXHAUSTIVE" ELSE "SPECIFIC"
              ELSE "EXHAUSTIVE"
         ELSE "SPECIFIC"

\* an answer that gives up when the synthesis call fails
answer_exhaustive_query_FailsWithSynthesis(q, extracted_data, templateLen, synth) ==
    IF Len(extracted_data.documents) = 0
    THEN [kind |-> "nodocs", len |-> NoDocsMessageLen, success |-> FALSE]
    ELSE IF synth.ok
         THEN [kind |-> "synth", len |-> synth.len, success |-> TRUE]
         ELSE [kind |-> "template", len |-> 0, success |-> FALSE]

\* the text answer_exhaustive_query returns, as [kind, len]: the fixed
\* no-documents message, the rendered template, or the synthesized prose
\* (synth.ok: the completion call returned a text of synth.len characters)
answer_exhaustive_query(q, extracted_data, templateLen, synth) ==
    IF Len(extracted_data.documents) = 0
    THEN [kind |-> "nodocs", len |-> NoDocsMessageLen, success |-> FALSE]
    ELSE IF synth.ok
         THEN [kind |-> "synth", len |-> synth.len, success |-> TRUE]
         ELSE [kind |-> "template", len |-> templateLen, success |-> TRUE]

(***************************************************************************)
(* The template renderers (src/src/router.py).  A rendered text is         *)
(* represented by its parts: which template it is and the items it shows.  *)
(***************************************************************************)
\* the outcome of the keyword tests on the question's lower-cased text:
\* category: lines 326-339 of get_query_category ("none": no keyword);
\* late: lines 351-357; type: the filter of _answer_entities_query 476-487
Kw(q) ==
    CASE q.id \in {"list-people", "list-people-lower", "who-is-zed-everyone"} ->
             [category |-> "entities", late |-> "general", type |-> "person"]
      [] q.id = "list-organizations" ->
             [category |-> "entities", late |-> "general", type |-> "organization"]
      [] q.id \in {"who-is-amanda", "who-is-zed", "about-zed"} ->
             [category |-> "entities", late |-> "general", type |-> "any"]
      [] q.id = "find-conflicts" ->
             [category |-> "conflicts", late |-> "general", type |-> "any"]
      [] OTHER -> [category |-> "none", late |-> "general", type |-> "any"]

get_query_category(q, extracted_data) ==
    IF Kw(q).category # "none" THEN Kw(q).category
    ELSE IF /\ q.names # <<>>
            /\ _find_matching_entities(q.names, extracted_data.entities) # <<>>
         THEN "entities"
         ELSE Kw(q).late

\* e.get("type", "").lower()
LowerType(t) ==
    CASE t = "Person" -> "person"
      [] t = "Organization" -> "organization"
      [] OTHER -> t

\* the characters of each person's name that are left of the text
\* "\n".join("- **name**" ...)[:15]; offset is where the entity's line
\* starts
RECURSIVE PeopleShown(_, _)
PeopleShown(people, offset) ==
    IF people = <<>> THEN <<>>
    ELSE LET name == Head(people).name
             left == PeopleListLimit - (offset + 4)
             shown == IF left < 0 THEN 0 ELSE Min(NameLen(name), left)
         IN <<[name |-> name, shown |-> shown]>>
            \o PeopleShown(Tail(people), offset + 4 + NameLen(name) + 2 + 1)

\* "Deduplicate by name (case-insensitive)"
RECURSIVE UniqueEntities(_, _)
UniqueEntities(filtered, seen_names) ==
    IF filtered = <<>> THEN <<>>
    ELSE LET name_lower == LowerText(Head(filtered).name)
         IN IF name_lower # <<>> /\ name_lower \notin seen_names
            THEN <<Head(filtered)>>
                 \o UniqueEntities(Tail(filtered), seen_names \cup {name_lower})
            ELSE UniqueEntities(Tail(filtered), seen_names)

_answer_entities_query(q, data) ==
    LET entities == data.entities
        potential_names == q.names
        matching_entities == _find_matching_entities(potential_names, entities)
        filtered == IF Kw(q).type = "any" THEN entities
                    ELSE SelectSeq(entities, LAMBDA e : LowerType(e.type) = Kw(q).type)
    IN IF potential_names # <<>> /\ matching_entities # <<>>
       THEN [kind |-> "dossier", entities |-> matching_entities]
       ELSE IF potential_names # <<>>
       THEN [kind |-> "no_information", about |-> potential_names,
             people |-> PeopleShown(SelectSeq(entities,
                                      LAMBDA e : LowerType(e.type) = "person"), 0)]
       ELSE IF filtered = <<>>
       THEN [kind |-> "none_identified", type |-> Kw(q).type]
       ELSE [kind |-> "listing", type |-> Kw(q).type,
             entities |-> UniqueEntities(filtered, {})]

\* raw_response of answer_exhaustive_query, lines 382-394; the other
\* renderers are kept as their category
RawResponse(q, extracted_data) ==
    LET category == get_query_category(q, extracted_data)
    IN IF category = "entities"
       THEN _answer_entities_query(q, extracted_data)
       ELSE [kind |-> category]

(***************************************************************************)
(* QUERY DECOMPOSITION (src/src/coa.py)                                    *)
(*                                                                         *)
(* A completion text is a sequence of lines: a ``` fence, a line holding   *)
(* one JSON value, or prose.  A JSON value is [t, items]: an array of      *)
(* strings, an object (its keys), a string (its characters), a number or   *)
(* null.                                                                   *)
(***************************************************************************)
\* a gate that looks at the indicators before the length
should_expand_query_IndicatorsFirst(q) ==
    IF q.indicator THEN TRUE
    ELSE IF q.caps >= 2 THEN TRUE
    ELSE IF q.nwords >= 12 THEN TRUE
    ELSE FALSE

\* words[1:] leaves the first word out of the capitalized-word count, which
\* is q.caps
should_expand_query(q) ==
    IF q.nwords < 6 THEN FALSE
    ELSE IF q.indicator THEN TRUE
    ELSE IF q.caps >= 2 THEN TRUE
    ELSE IF q.nwords >= 12 THEN TRUE
    ELSE FALSE

JVal(t, items) == [t |-> t, items |-> items]

FenceLine == [k |-> "fence", v |-> JVal("null", <<>>)]

ProseLine == [k |-> "prose", v |-> JVal("null", <<>>)]

JsonLine(v) == [k |-> "json", v |-> v]

Variants(k) == [i \in 1..k |-> <<"v", i>>]

OriginalQuery == <<"q", 0>>

\* what client.responses.create may do for the decomposition prompt
DecomposeResponses ==
    { [throws |-> TRUE, lines |-> <<>>] }
    \cup { [throws |-> FALSE, lines |-> <<JsonLine(JVal("array", Variants(k)))>>] :
             k \in {0, NWorkers - 1, NWorkers, NWorkers + 1} }
    \cup { [throws |-> FALSE, lines |-> ls] : ls \in
             { <<FenceLine, JsonLine(JVal("array", Variants(NWorkers))), FenceLine>>,
               <<FenceLine, JsonLine(JVal("array", Variants(1)))>>,
               <<FenceLine, ProseLine, FenceLine>>,
               <<ProseLine>>,
               <<JsonLine(JVal("array", Variants(NWorkers))), ProseLine>>,
               <<>>,
               <<JsonLine(JVal("object", <<<<"k", 1>>, <<"k", 2>>>>))>>,
               <<JsonLine(JVal("string", <<<<"c", 1>>, <<"c", 2>>>>))>>,
               <<JsonLine(JVal("number", <<>>))>>,
               <<JsonLine(JVal("null", <<>>))>> } }

\* lines after the opening fence, up to the closing fence
RECURSIVE UntilFence(_)
UntilFence(lines) ==
    IF lines = <<>> \/ Head(lines).k = "fence" THEN <<>>
    ELSE <<Head(lines)>> \o UntilFence(Tail(lines))

\* "Handle markdown code blocks"
StripCodeFence(lines) ==
    IF lines # <<>> /\ Head(lines).k = "fence" THEN UntilFence(Tail(lines)) ELSE lines

\* json.loads: one JSON value and nothing else, or JSONDecodeError
JsonLoads(lines) ==
    IF Len(lines) = 1 /\ lines[1].k = "json"
    THEN [ok |-> TRUE, v |-> lines[1].v]
    ELSE [ok |-> FALSE, v |-> JVal("null", <<>>)]

Copies(x, n) == [i \in 1..n |-> x]

\* [str(q) for q in queries] then the padding loop and queries[:n]
PadQueries(items, n) ==
    LET padded == IF Len(items) < n THEN items \o Copies(OriginalQuery, n - Len(items))
                  ELSE items
    IN SubSeq(padded, 1, n)

\* the try block of decompose_query once the call has answered resp: the
\* value it returns, or the exception it raises
DecomposeTry(resp, n) ==
    LET raise(e) == [exc |-> e, queries |-> <<>>, expanded |-> FALSE]
        parsed == JsonLoads(StripCodeFence(resp.lines))
    IN IF resp.throws THEN raise("ServiceError")
       ELSE IF ~parsed.ok THEN raise("JSONDecodeError")
       ELSE IF parsed.v.t = "array" /\ Len(parsed.v.items) >= n
            THEN [exc |-> "none", queries |-> SubSeq(parsed.v.items, 1, n), expanded |-> TRUE]
            ELSE IF parsed.v.t \in {"number", "null"}
                 THEN raise("TypeError")   \* [str(q) for q in queries]
                 ELSE [exc |-> "none", queries |-> PadQueries(parsed.v.items, n),
                       expanded |-> TRUE]

\* a decompose_query that handles the parse error only
DecomposeCatches_JsonOnly(exc) == exc = "JSONDecodeError"

\* except json.JSONDecodeError / except Exception
DecomposeCatches(exc) == exc = "JSONDecodeError" \/ exc \in {"ServiceError", "TypeError"}

\* a decompose_query that calls the completion service whatever the gate says
decompose_query_NoGate(q, n, resp) ==
    LET failOpen == [queries |-> Copies(OriginalQuery, n), expanded |-> FALSE]
        r == DecomposeTry(resp, n)
    IN IF r.exc = "none"
       THEN [queries |-> r.queries, expanded |-> r.expanded, raised |-> FALSE,
             called |-> TRUE]
       ELSE [queries |-> failOpen.queries, expanded |-> FALSE, raised |-> FALSE,
             called |-> TRUE]

\* decompose_query(client, model, question, n) with force_expand = False;
\* called: whether the completion service was called; raised: whether an
\* exception leaves the function
decompose_query(q, n, resp) ==
    LET failOpen == [queries |-> Copies(OriginalQuery, n), expanded |-> FALSE]
    IN IF ~should_expand_query(q)
       THEN [queries |-> failOpen.queries, expanded |-> FALSE, raised |-> FALSE,
             called |-> FALSE]
       ELSE LET r == DecomposeTry(resp, n)
            IN IF r.exc = "none"
               THEN [queries |-> r.queries, expanded |-> r.expanded, raised |-> FALSE,
                     called |-> TRUE]
               ELSE IF DecomposeCatches(r.exc)
                    THEN [queries |-> failOpen.queries, expanded |-> FALSE,
                          raised |-> FALSE, called |-> TRUE]
                    ELSE [queries |-> <<>>, expanded |-> FALSE, raised |-> TRUE,
                          called |-> TRUE]

(***************************************************************************)
(* THE ORCHESTRATOR: coa_report_with_progress on a pool thread             *)
(* (src/src/coa.py), started by handle_streaming_question with             *)
(* n_workers = 4, a progress callback and use_query_expansion = True.      *)
(***************************************************************************)
NoInput == [built |-> FALSE, outputs |-> <<>>]

\* what the search-augmented call of one worker may do: throw, or return a
\* JSON object, valid JSON that is not an object, or text that is not JSON
WorkerAnswers == {"throws", "object", "array", "prose"}

\* the try block around json.loads(text) and parsed["_search_query"] = ...
WorkerTry(answer) ==
    IF answer = "prose" THEN "JSONDecodeError"
    ELSE IF answer = "array" THEN "TypeError"   \* item assignment on a list
    ELSE "none"

\* a worker loop that handles the parse error only
WorkerCatches_JsonOnly(exc) == exc = "JSONDecodeError"

\* except Exception
WorkerCatches(exc) == exc \in {"JSONDecodeError", "TypeError"}

ParsedOutput(search_query) ==
    [parsed |-> TRUE, raw_text |-> "", _search_query |-> search_query]

DegradedOutput(answer, search_query) ==
    [parsed |-> FALSE, raw_text |-> answer, _search_query |-> search_query]

\* the status string on_progress gets for worker i
WorkerStatus(isExpanded, search_query) ==
    IF isExpanded /\ search_query # OriginalQuery THEN "searching" ELSE "analyzing"

\* on_worker_progress: run_coroutine_threadsafe(progress_queue.put(...), loop)
PutCallback(current, status) ==
    [kind |-> "put", current |-> current, total |-> NWorkers, status |-> status]

\* the executor future completing wakes run_workers on the loop
DoneCallback == [kind |-> "done", current |-> 0, total |-> 0, status |-> ""]

\* a worker loop that stops one pass early
WorkerLoopContinues_OneShort(i) == i < NWorkers - 1

\* the range(n_workers) of the worker loop
WorkerLoopContinues(i) == i < NWorkers

ThreadIdle ==
    /\ tpc = "idle"
    /\ wi = 0
    /\ search_queries = <<>>
    /\ expanded = FALSE
    /\ worker_outputs = <<>>
    /\ manager_input = NoInput
    /\ progressCalls = <<>>
    /\ threwAt = 0

\* lines 204-206: on_progress("Analyzing question ...", 0, n_workers), then
\* decompose_query is entered
T_Start ==
    /\ tpc = "start"
    /\ progressCalls' = Append(progressCalls, [current |-> 0, searchesDone |-> 0])
    /\ loopReady' = Append(loopReady, PutCallback(0, "strategies"))
    /\ tpc' = "decompose"
    /\ UNCHANGED <<wi, search_queries, expanded, worker_outputs, manager_input,
                   callLog, threwAt, progress_queue, taskDone>>
    /\ UNCHANGED <<apiKeySet, hasStore, qn, question, hpc, events, response, sent,
                   genVars, graphVars>>

\* an orchestrator that reports progress only for expanded queries
EnterIteration_ProgressOnlyIfExpanded(i, queries, isExpanded, outputs) ==
    IF WorkerLoopContinues(i)
    THEN /\ IF isExpanded
            THEN /\ progressCalls' = Append(progressCalls,
                                            [current |-> i + 1, searchesDone |-> Len(outputs)])
                 /\ loopReady' = Append(loopReady,
                                        PutCallback(i + 1, WorkerStatus(isExpanded, queries[i + 1])))
            ELSE UNCHANGED <<progressCalls, loopReady>>
         /\ tpc' = "search"
         /\ UNCHANGED manager_input
    ELSE /\ manager_input' = [built |-> TRUE, outputs |-> outputs]
         /\ tpc' = "returned"
         /\ loopReady' = Append(loopReady, DoneCallback)
         /\ UNCHANGED progressCalls

\* The thread from the end of iteration i - 1 of the worker loop to its next
\* blocking call: either iteration i starts (lines 216-234: on_progress for
\* worker i + 1, then its search call is issued), or the loop is over and
\* manager_input is built and returned (lines 244-251).
EnterIteration(i, queries, isExpanded, outputs) ==
    IF WorkerLoopContinues(i)
    THEN /\ progressCalls' = Append(progressCalls,
                                    [current |-> i + 1, searchesDone |-> Len(outputs)])
         /\ loopReady' = Append(loopReady,
                                PutCallback(i + 1, WorkerStatus(isExpanded, queries[i + 1])))
         /\ tpc' = "search"
         /\ UNCHANGED manager_input
    ELSE /\ manager_input' = [built |-> TRUE, outputs |-> outputs]
         /\ tpc' = "returned"
         /\ loopReady' = Append(loopReady, DoneCallback)
         /\ UNCHANGED progressCalls

\* line 207: decompose_query answers; then the worker loop is entered
T_Decompose ==
    /\ tpc = "decompose"
    /\ \E resp \in DecomposeResponses :
          LET d == decompose_query(question, NWorkers, resp)
          IN /\ search_queries' = d.queries
             /\ expanded' = d.expanded
             /\ callLog' = IF d.called THEN callLog \cup {"decompose"} ELSE callLog
             /\ IF d.raised
                THEN /\ tpc' = "raised"
                     /\ loopReady' = Append(loopReady, DoneCallback)
                     /\ UNCHANGED <<progressCalls, manager_input>>
                ELSE EnterIteration(0, d.queries, d.expanded, <<>>)
    /\ UNCHANGED <<wi, worker_outputs, threwAt, progress_queue, taskDone>>
    /\ UNCHANGED <<apiKeySet, hasStore, qn, question, hpc, events, response, sent,
                   genVars, graphVars>>

\* lines 234-242: the search call of worker i + 1 answers and its text is
\* parsed; then the next iteration
T_Search ==
    /\ tpc = "search"
    /\ callLog' = callLog \cup {"search"}
    /\ \E answer \in WorkerAnswers :
          IF answer = "throws"
          THEN \* ask_with_file_search is outside the try: the run ends
               /\ tpc' = "raised"
               /\ threwAt' = wi + 1
               /\ loopReady' = Append(loopReady, DoneCallback)
               /\ UNCHANGED <<wi, worker_outputs, progressCalls, manager_input>>
          ELSE LET exc == WorkerTry(answer)
                   q == search_queries[wi + 1]
                   outputs == Append(worker_outputs,
                                     IF exc = "none" THEN ParsedOutput(q)
                                     ELSE DegradedOutput(answer, q))
               IN IF exc # "none" /\ ~WorkerCatches(exc)
                  THEN /\ tpc' = "raised"
                       /\ loopReady' = Append(loopReady, DoneCallback)
                       /\ UNCHANGED <<wi, worker_outputs, threwAt, progressCalls,
                                      manager_input>>
                  ELSE /\ worker_outputs' = outputs
                       /\ wi' = wi + 1
                       /\ EnterIteration(wi + 1, search_queries, expanded, outputs)
                       /\ UNCHANGED threwAt
    /\ UNCHANGED <<search_queries, expanded, progress_queue, taskDone>>
    /\ UNCHANGED <<apiKeySet, hasStore, qn, question, hpc, events, response, sent,
                   genVars, graphVars>>

(***************************************************************************)
(* THE EVENT LOOP: callbacks scheduled from the pool thread run in the     *)
(* order they were scheduled, between the steps of the handler.            *)
(***************************************************************************)
\* a loop that runs the most recently scheduled callback first
NextCallback_Lifo(ready) == ready[Len(ready)]

\* the callback the loop runs next: the head of its ready queue
NextCallback(ready) == Head(ready)

\* one iteration of the loop: the callback is taken off the ready queue (no
\* two scheduled callbacks of a run are equal) and run
L_RunCallback ==
    /\ loopReady # <<>>
    /\ LET cb == NextCallback(loopReady)
       IN /\ loopReady' = SelectSeq(loopReady, LAMBDA x : x # cb)
          /\ IF cb.kind = "put"
             THEN /\ progress_queue' = Append(progress_queue, cb)
                  /\ UNCHANGED taskDone
             ELSE /\ taskDone' = TRUE
                  /\ UNCHANGED progress_queue
    /\ UNCHANGED <<threadVars, sessionVars, genVars, graphVars>>

(***************************************************************************)
(* SYNTHESIS STREAM: stream_manager_response (src/src/coa.py), run as      *)
(* list(stream_manager_response(...)) on a pool thread.                    *)
(*                                                                         *)
(* The text the completion service holds for the reduction input is the    *)
(* characters 1..fullText.  A fragment is the span [lo, hi] of that text,  *)
(* or the failure message.                                                 *)
(***************************************************************************)
Span(lo, hi) == [lo |-> lo, hi |-> hi, err |-> FALSE]

ErrFragment == [lo |-> 0, hi |-> 0, err |-> TRUE]

\* the characters of one fragment; the failure message is the character -1
FragText(f) == IF f.err THEN <<-1>> ELSE [i \in 1..(f.hi - f.lo + 1) |-> f.lo + i - 1]

ConcatFragments(fs) == FlattenSeq([i \in DOMAIN fs |-> FragText(fs[i])])

TextOfLen(n) == [i \in 1..n |-> i]

\* the shapes of event the streaming channel may deliver: the three typed
\* delta events, an untyped event with .text, an untyped event whose .delta
\* is a string or has .text, and typed events that are no delta (such as
\* response.created, or response.output_text.done, which has a .text)
DeltaShapes ==
    {"response.output_text.delta", "response.content_part.delta", "content_block_delta",
     "untyped.text", "untyped.delta_str", "untyped.delta_obj"}

OtherShapes == {"response.created", "response.output_text.done"}

\* whether the event loop body yields for an event of this shape
StreamYields(shape) ==
    IF shape \in {"response.created", "response.output_text.done"}
    THEN FALSE   \* has a type, and the type is none of the three
    ELSE TRUE

\* for i in range(0, len(full_text), chunk_size): yield full_text[i:i + chunk_size]
FallbackChunks(len, chunk_size) ==
    [k \in 1..((len + chunk_size - 1) \div chunk_size) |->
        Span((k - 1) * chunk_size + 1, Min(k * chunk_size, len))]

\* except Exception as e (around the streaming loop)
StreamCatches(exc) == exc \in {"ServiceError"}

\* a fallback whose blocking call is not guarded
FallbackCatches_Nothing(exc) == FALSE

\* except Exception as e2 (around the blocking call)
FallbackCatches(exc) == exc \in {"ServiceError"}

GenIdle ==
    /\ gpc = "idle"
    /\ fullText = 0
    /\ spos = 0
    /\ fragments = <<>>
    /\ streamFailed = FALSE
    /\ fallbackFailed = FALSE

threadLocals == <<tpc, wi, search_queries, expanded, worker_outputs, manager_input,
                  progressCalls, threwAt>>

\* lines 263-269: client.responses.create(..., stream=True)
G_Open ==
    /\ gpc = "open"
    /\ callLog' = callLog \cup {"synthesis_stream"}
    /\ \E len \in 0..MaxTextLen, ok \in BOOLEAN :
          /\ fullText' = len
          /\ IF ok THEN gpc' = "streaming" /\ UNCHANGED streamFailed
             ELSE IF StreamCatches("ServiceError")
                  THEN gpc' = "fallback" /\ streamFailed' = TRUE
                  ELSE gpc' = "raised" /\ streamFailed' = TRUE
    /\ UNCHANGED <<spos, fragments, fallbackFailed, sessionVars, graphVars, loopVars,
                   threadLocals>>

\* lines 271-290: one event of the stream; a delta event carries the next
\* characters of the text (an empty delta may open the stream)
G_Event ==
    /\ gpc = "streaming"
    /\ \E shape \in DeltaShapes \cup OtherShapes, d \in 0..MaxDelta :
          /\ IF shape \in DeltaShapes
             THEN /\ d <= fullText - spos
                  /\ d = 0 => fragments = <<>>
                  /\ d > 0 => d = Min(MaxDelta, fullText - spos)
                  /\ spos' = spos + d
                  /\ fragments' = IF StreamYields(shape)
                                  THEN Append(fragments, Span(spos + 1, spos + d))
                                  ELSE fragments
             ELSE /\ d = 0
                  /\ UNCHANGED spos
                  /\ fragments' = IF StreamYields(shape)
                                  THEN Append(fragments, Span(1, fullText))
                                  ELSE fragments
    /\ UNCHANGED <<gpc, fullText, streamFailed, fallbackFailed, sessionVars, graphVars,
                   loopVars, threadLocals, callLog>>

\* the stream is exhausted: the for loop ends and the generator returns
G_StreamEnd ==
    /\ gpc = "streaming"
    /\ spos = fullText
    /\ gpc' = "done"
    /\ UNCHANGED <<fullText, spos, fragments, streamFailed, fallbackFailed,
                   sessionVars, graphVars, loopVars, threadLocals, callLog>>

\* the stream raises while it is being read
G_StreamFail ==
    /\ gpc = "streaming"
    /\ streamFailed' = TRUE
    /\ gpc' = IF StreamCatches("ServiceError") THEN "fallback" ELSE "raised"
    /\ UNCHANGED <<fullText, spos, fragments, fallbackFailed, sessionVars, graphVars,
                   loopVars, threadLocals, callLog>>

\* lines 292-304: the blocking call and the simulated stream, or the
\* failure fragment
G_Fallback ==
    /\ gpc = "fallback"
    /\ callLog' = callLog \cup {"synthesis_blocking"}
    /\ \E ok \in BOOLEAN :
          IF ok
          THEN /\ fragments' = fragments \o FallbackChunks(fullText, FallbackChunkSize)
               /\ gpc' = "done"
               /\ UNCHANGED fallbackFailed
          ELSE /\ fallbackFailed' = TRUE
               /\ IF FallbackCatches("ServiceError")
                  THEN fragments' = Append(fragments, ErrFragment) /\ gpc' = "done"
                  ELSE UNCHANGED fragments /\ gpc' = "raised"
    /\ UNCHANGED <<fullText, spos, streamFailed, sessionVars, graphVars, loopVars,
                   threadLocals>>

(***************************************************************************)
(* THE QUESTION HANDLER: handle_streaming_question (src/web/app.py), one   *)
(* task of the event loop.  Each action is the code between two awaits.    *)
(***************************************************************************)
Ev(type, a, b, s) == [type |-> type, a |-> a, b |-> b, s |-> s]

\* the text lengths the completion service or a renderer may produce for a
\* graph answer: empty, one chunk, and more than two chunks
GraphAnswerLens == {0, GraphChunkSize, 2 * GraphChunkSize + MaxDelta}

\* the run's data is dropped once its result has been taken; the handler
\* keeps no reference to it
ResetRun ==
    /\ search_queries' = <<>>
    /\ expanded' = FALSE
    /\ worker_outputs' = <<>>
    /\ manager_input' = NoInput
    /\ progressCalls' = <<>>
    /\ threwAt' = 0
    /\ loopReady' = <<>>
    /\ progress_queue' = <<>>
    /\ taskDone' = FALSE

ResetGen ==
    /\ gpc' = "idle"
    /\ fullText' = 0
    /\ spos' = 0
    /\ fragments' = <<>>
    /\ streamFailed' = FALSE
    /\ fallbackFailed' = FALSE

\* a handler that does not look for the vector store before starting
H_Receive_NoStoreCheck ==
    /\ hpc = "idle"
    /\ qn < MaxQuestions
    /\ qn' = qn + 1
    /\ \E q \in Questions : question' = q
    /\ callLog' = {}
    /\ sent' = 0
    /\ response' = [kind |-> "none", len |-> 0, success |-> FALSE]
    /\ IF ~apiKeySet
       THEN /\ events' = <<Ev("error", 0, 0, "add your API key")>>
            /\ hpc' = "idle"
       ELSE /\ events' = <<>>
            /\ hpc' = "route"
    /\ UNCHANGED <<apiKeySet, hasStore, graphVars, threadLocals, loopVars, genVars>>

\* lines 308-323: a question arrives; the two precondition checks
H_Receive ==
    /\ hpc = "idle"
    /\ qn < MaxQuestions
    /\ qn' = qn + 1
    /\ \E q \in Questions : question' = q
    /\ callLog' = {}
    /\ sent' = 0
    /\ response' = [kind |-> "none", len |-> 0, success |-> FALSE]
    /\ IF ~apiKeySet
       THEN /\ events' = <<Ev("error", 0, 0, "add your API key")>>
            /\ hpc' = "idle"
       ELSE IF ~hasStore
            THEN /\ events' = <<Ev("error", 0, 0, "upload documents first")>>
                 /\ hpc' = "idle"
            ELSE /\ events' = <<>>
                 /\ hpc' = "route"
    /\ UNCHANGED <<apiKeySet, hasStore, graphVars, threadLocals, loopVars, genVars>>

\* a handler that starts the workers whatever the route
H_Route_WorkersAlways ==
    /\ hpc = "route"
    /\ IF classify_query(question, load_extracted(graphFile)) = "EXHAUSTIVE"
       THEN /\ events' = Append(events, Ev("stage", 0, 0, "graph"))
            /\ hpc' = "graph_answer"
       ELSE /\ events' = Append(events, Ev("stage", 0, 0, "workers"))
            /\ hpc' = "w_wait"
    /\ tpc' = "start"
    /\ UNCHANGED <<apiKeySet, hasStore, qn, question, response, sent, graphVars,
                   wi, search_queries, expanded, worker_outputs, manager_input,
                   progressCalls, callLog, threwAt, loopVars, genVars>>

\* lines 325-359: load the graph, classify, announce the stage; a SPECIFIC
\* question starts coa_report_with_progress on the pool (line 386)
H_Route ==
    /\ hpc = "route"
    /\ IF classify_query(question, load_extracted(graphFile)) = "EXHAUSTIVE"
       THEN /\ events' = Append(events, Ev("stage", 0, 0, "graph"))
            /\ hpc' = "graph_answer"
            /\ UNCHANGED tpc
       ELSE /\ events' = Append(events, Ev("stage", 0, 0, "workers"))
            /\ hpc' = "w_wait"
            /\ tpc' = "start"
    /\ UNCHANGED <<apiKeySet, hasStore, qn, question, response, sent, graphVars,
                   wi, search_queries, expanded, worker_outputs, manager_input,
                   progressCalls, callLog, threwAt, loopVars, genVars>>

\* lines 339-345: answer_exhaustive_query on the pool, then stream_start
H_GraphAnswer ==
    /\ hpc = "graph_answer"
    /\ LET data == load_extracted(graphFile)
       IN /\ \E templateLen \in GraphAnswerLens \ {0}, synthOk \in BOOLEAN,
               synthLen \in GraphAnswerLens :
                 response' = answer_exhaustive_query(question, data, templateLen,
                                                     [ok |-> synthOk, len |-> synthLen])
          /\ callLog' = IF Len(data.documents) = 0 THEN callLog
                        ELSE callLog \cup {"graph_synthesis"}
    /\ events' = Append(events, Ev("stream_start", 0, 0, ""))
    /\ sent' = 0
    /\ hpc' = "graph_chunks"
    /\ UNCHANGED <<apiKeySet, hasStore, qn, question, graphVars, threadLocals,
                   loopVars, genVars>>

\* lines 348-351: one chunk of 50 characters, then the sleep
H_GraphChunk ==
    /\ hpc = "graph_chunks"
    /\ sent < response.len
    /\ events' = Append(events, Ev("chunk", sent + 1,
                                   Min(sent + GraphChunkSize, response.len), ""))
    /\ sent' = Min(sent + GraphChunkSize, response.len)
    /\ UNCHANGED <<apiKeySet, hasStore, qn, question, hpc, response, graphVars,
                   threadVars, loopVars, genVars>>

\* lines 353-355: stream_end and return
H_GraphEnd ==
    /\ hpc = "graph_chunks"
    /\ sent >= response.len
    /\ events' = Append(events, Ev("stream_end", 0, 0, ""))
    /\ hpc' = "idle"
    /\ sent' = 0
    /\ response' = [kind |-> "none", len |-> 0, success |-> FALSE]
    /\ UNCHANGED <<apiKeySet, hasStore, qn, question, graphVars,
                   threadVars, loopVars, genVars>>

\* lines 392-395: progress_queue.get() returns a message, which is sent on
H_WaitGet ==
    /\ hpc = "w_wait"
    /\ progress_queue # <<>>
    /\ LET msg == Head(progress_queue)
       IN events' = Append(events, Ev("worker_progress", msg.current, msg.total, msg.status))
    /\ progress_queue' = Tail(progress_queue)
    /\ hpc' = "w_check"
    /\ UNCHANGED <<apiKeySet, hasStore, qn, question, response, sent, graphVars,
                   threadVars, loopReady, taskDone, genVars>>

\* lines 396-400: the wait times out on an empty queue; then the done check
H_WaitTimeout ==
    /\ hpc = "w_wait"
    /\ progress_queue = <<>>
    /\ hpc' = IF taskDone THEN "await_task" ELSE "w_wait"
    /\ UNCHANGED <<apiKeySet, hasStore, qn, question, events, response, sent,
                   graphVars, threadVars, loopVars, genVars>>

\* lines 399-400 after a message was sent: if worker_task.done()
H_Check ==
    /\ hpc = "w_check"
    /\ hpc' = IF taskDone THEN "await_task" ELSE "w_wait"
    /\ UNCHANGED <<apiKeySet, hasStore, qn, question, events, response, sent,
                   graphVars, threadVars, loopVars, genVars>>

\* a handler that returns without a word when the worker task raised
H_AwaitTask_SilentFailure ==
    /\ hpc = "await_task"
    /\ IF tpc = "raised"
       THEN /\ events' = events
            /\ hpc' = "idle"
            /\ tpc' = "idle"
            /\ wi' = 0
            /\ UNCHANGED gpc
       ELSE /\ events' = Append(events, Ev("stage", 0, 0, "synthesizing"))
            /\ hpc' = "synth"
            /\ gpc' = "open"
            /\ UNCHANGED <<tpc, wi>>
    /\ ResetRun
    /\ UNCHANGED <<apiKeySet, hasStore, qn, question, response, sent, graphVars,
                   callLog, fullText, spos, fragments, streamFailed, fallbackFailed>>

\* lines 403-415: take the task's result (or its exception, lines 428-431),
\* announce the synthesis and start stream_response on the pool
H_AwaitTask ==
    /\ hpc = "await_task"
    /\ IF tpc = "raised"
       THEN /\ events' = Append(events, Ev("error", 0, 0, "exception"))
            /\ hpc' = "idle"
            /\ tpc' = "idle"
            /\ wi' = 0
            /\ UNCHANGED gpc
       ELSE /\ events' = Append(events, Ev("stage", 0, 0, "synthesizing"))
            /\ hpc' = "synth"
            /\ gpc' = "open"
            /\ UNCHANGED <<tpc, wi>>
    /\ ResetRun
    /\ UNCHANGED <<apiKeySet, hasStore, qn, question, response, sent, graphVars,
                   callLog, fullText, spos, fragments, streamFailed, fallbackFailed>>

\* a handler that goes to the chunk loop without announcing the stream
H_StreamStart_Unannounced ==
    /\ hpc = "synth"
    /\ gpc \in {"done", "raised"}
    /\ hpc' = IF gpc = "raised" THEN "idle" ELSE "chunks"
    /\ sent' = 0
    /\ UNCHANGED <<apiKeySet, hasStore, qn, question, events, response, graphVars,
                   threadVars, loopVars, genVars>>

\* lines 415-418: the list of chunks is ready (or the generator raised)
H_StreamStart ==
    /\ hpc = "synth"
    /\ gpc \in {"done", "raised"}
    /\ IF gpc = "raised"
       THEN /\ events' = Append(events, Ev("error", 0, 0, "exception"))
            /\ hpc' = "idle"
            /\ tpc' = "idle"
            /\ wi' = 0
            /\ ResetGen
       ELSE /\ events' = Append(events, Ev("stream_start", 0, 0, ""))
            /\ hpc' = "chunks"
            /\ UNCHANGED <<tpc, wi, genVars>>
    /\ sent' = 0
    /\ UNCHANGED <<apiKeySet, hasStore, qn, question, response, graphVars,
                   search_queries, expanded, worker_outputs, manager_input,
                   progressCalls, callLog, threwAt, loopVars>>

\* lines 420-423: for chunk in chunks: if chunk: send_chunk
H_Chunk ==
    /\ hpc = "chunks"
    /\ sent < Len(fragments)
    /\ LET f == fragments[sent + 1]
       IN events' = IF f.err THEN Append(events, Ev("chunk", 0, 0, "failure"))
                    ELSE IF f.hi >= f.lo THEN Append(events, Ev("chunk", f.lo, f.hi, ""))
                    ELSE events
    /\ sent' = sent + 1
    /\ UNCHANGED <<apiKeySet, hasStore, qn, question, hpc, response, graphVars,
                   threadVars, loopVars, genVars>>

\* lines 425-426: stream_end; the handler returns and its locals are gone
H_StreamEnd ==
    /\ hpc = "chunks"
    /\ sent = Len(fragments)
    /\ events' = Append(events, Ev("stream_end", 0, 0, ""))
    /\ hpc' = "idle"
    /\ sent' = 0
    /\ tpc' = "idle"
    /\ wi' = 0
    /\ ResetGen
    /\ UNCHANGED <<apiKeySet, hasStore, qn, question, response, graphVars,
                   search_queries, expanded, worker_outputs, manager_input,
                   progressCalls, callLog, threwAt, loopVars>>

(***************************************************************************)
(* POST /api/ask, the non-streaming endpoint (src/web/app.py 434-475).     *)
(***************************************************************************)
\* the questions of the streaming model, and three that name no entity
AskQuestions ==
    Questions \cup
    { \* "list all people mentioned in the documents"
      Q("list-people-lower", 7, FALSE, 0, TRUE, FALSE, <<>>, FALSE),
      \* "list all organizations in the files"
      Q("list-organizations", 6, FALSE, 0, TRUE, FALSE, <<>>, FALSE),
      \* "find all conflicts"
      Q("find-conflicts", 3, FALSE, 0, TRUE, FALSE, <<>>, FALSE) }

\* lines 438-449: the two precondition checks answer 400
A_Receive ==
    /\ hpc = "ask_idle"
    /\ qn < MaxQuestions
    /\ qn' = qn + 1
    /\ \E q \in AskQuestions : question' = q
    /\ callLog' = {}
    /\ IF ~apiKeySet \/ ~hasStore
       THEN /\ response' = [kind |-> "http400", len |-> 0, success |-> FALSE]
            /\ hpc' = "ask_idle"
       ELSE /\ response' = [kind |-> "none", len |-> 0, success |-> FALSE]
            /\ hpc' = "ask_route"
    /\ UNCHANGED <<apiKeySet, hasStore, events, sent, graphVars, threadLocals,
                   loopVars, genVars>>

\* lines 455-460: load the graph and classify
A_Route ==
    /\ hpc = "ask_route"
    /\ hpc' = IF classify_query(question, load_extracted(graphFile)) = "EXHAUSTIVE"
              THEN "ask_answer" ELSE "ask_coa"
    /\ UNCHANGED <<apiKeySet, hasStore, qn, question, events, response, sent,
                   graphVars, threadVars, loopVars, genVars>>

\* lines 461-465: answer_exhaustive_query on the pool; the rendered
\* template, its length and the outcome of the synthesis call are kept next
\* to the text that is returned
A_Answer ==
    /\ hpc = "ask_answer"
    /\ LET data == load_extracted(graphFile)
       IN /\ \E templateLen \in GraphAnswerLens \ {0}, synthOk \in BOOLEAN,
               synthLen \in GraphAnswerLens :
                 LET a == answer_exhaustive_query(question, data, templateLen,
                                                  [ok |-> synthOk, len |-> synthLen])
                 IN response' = [kind |-> a.kind, len |-> a.len, success |-> a.success,
                                 raw |-> IF a.kind = "nodocs" THEN [kind |-> "nodocs"]
                                         ELSE RawResponse(question, data),
                                 rawLen |-> templateLen,
                                 synthOk |-> synthOk]
          /\ callLog' = IF Len(data.documents) = 0 THEN callLog
                        ELSE callLog \cup {"graph_synthesis"}
    /\ hpc' = "ask_idle"
    /\ UNCHANGED <<apiKeySet, hasStore, qn, question, events, sent, graphVars,
                   threadLocals, loopVars, genVars>>

\* lines 468-475: coa_report on the pool; its report is returned, or the
\* exception it raises becomes a 500 answer
A_Coa ==
    /\ hpc = "ask_coa"
    /\ \E raised \in BOOLEAN, reportLen \in GraphAnswerLens :
          response' = IF raised
                      THEN [kind |-> "http500", len |-> 0, success |-> FALSE]
                      ELSE [kind |-> "report", len |-> reportLen, success |-> TRUE]
    /\ callLog' = callLog \cup {"decompose", "search", "manager"}
    /\ hpc' = "ask_idle"
    /\ UNCHANGED <<apiKeySet, hasStore, qn, question, events, sent, graphVars,
                   threadLocals, loopVars, genVars>>

(***************************************************************************)
(* Specifications.                                                         *)
(***************************************************************************)
SessionOff ==
    /\ apiKeySet = TRUE
    /\ hasStore = TRUE
    /\ qn = 0
    /\ question = NoQuestion
    /\ events = <<>>
    /\ response = [kind |-> "none", len |-> 0, success |-> FALSE]
    /\ sent = 0
    /\ callLog = {}
    /\ ThreadIdle
    /\ loopReady = <<>>
    /\ progress_queue = <<>>
    /\ taskDone = FALSE
    /\ GenIdle

Init ==
    /\ graphFile \in {AbsentFile, SavedFile(SeededGraph)}
    /\ rpc = [r \in Requests |-> "done"]
    /\ rkind = [r \in Requests |-> "upload"]
    /\ rextraction = [r \in Requests |-> FailedExtraction]
    /\ rdata = [r \in Requests |-> _empty_extraction]
    /\ apiKeySet \in BOOLEAN
    /\ hasStore \in BOOLEAN
    /\ qn = 0
    /\ question = NoQuestion
    /\ hpc = "idle"
    /\ events = <<>>
    /\ response = [kind |-> "none", len |-> 0, success |-> FALSE]
    /\ sent = 0
    /\ callLog = {}
    /\ ThreadIdle
    /\ loopReady = <<>>
    /\ progress_queue = <<>>
    /\ taskDone = FALSE
    /\ GenIdle

Next ==
    \/ H_Receive
    \/ H_Route
    \/ H_GraphAnswer
    \/ H_GraphChunk
    \/ H_GraphEnd
    \/ H_WaitGet
    \/ H_WaitTimeout
    \/ H_Check
    \/ H_AwaitTask
    \/ H_StreamStart
    \/ H_Chunk
    \/ H_StreamEnd
    \/ T_Start
    \/ T_Decompose
    \/ T_Search
    \/ L_RunCallback
    \/ G_Open
    \/ G_Event
    \/ G_StreamEnd
    \/ G_StreamFail
    \/ G_Fallback

Spec == Init /\ [][Next]_vars

\* The steps of the handler coroutine after a question was received, of the
\* pool thread running coa_report_with_progress, of the event loop running
\* the scheduled callbacks, and of the pool thread running stream_response.
HandlerStep ==
    \/ H_Route
    \/ H_GraphAnswer
    \/ H_GraphChunk
    \/ H_GraphEnd
    \/ H_WaitGet
    \/ H_WaitTimeout
    \/ H_Check
    \/ H_AwaitTask
    \/ H_StreamStart
    \/ H_Chunk
    \/ H_StreamEnd

ThreadStep == T_Start \/ T_Decompose \/ T_Search

GeneratorStep == G_Open \/ G_Event \/ G_StreamEnd \/ G_StreamFail \/ G_Fallback

\* The event loop and the pool run everything that is ready, and every
\* completion, search and stream call returns or throws: each of the four
\* takes a step if it stays able to.
SpecLive ==
    /\ Init
    /\ [][Next]_vars
    /\ WF_vars(HandlerStep)
    /\ WF_vars(ThreadStep)
    /\ WF_vars(L_RunCallback)
    /\ WF_vars(GeneratorStep)

InitGraph ==
    /\ GraphInit
    /\ hpc = "off"
    /\ SessionOff

NextGraph ==
    \/ \E r \in Requests : ReqRemove(r)
    \/ \E r \in Requests : ReqExtract(r)
    \/ \E r \in Requests : ReqLoadMerge(r)
    \/ \E r \in Requests : ReqDetect(r)
    \/ \E r \in Requests : ReqSave(r)

SpecGraph == InitGraph /\ [][NextGraph]_vars

InitMaint ==
    /\ MaintInit
    /\ hpc = "off"
    /\ SessionOff

NextMaint ==
    \/ \E r \in Requests : ReqDeduplicate(r)
    \/ \E r \in Requests : ReqDelete(r)
    \/ \E r \in Requests : ReqRemove(r)
    \/ \E r \in Requests : ReqExtract(r)
    \/ \E r \in Requests : ReqLoadMerge(r)
    \/ \E r \in Requests : ReqDetect(r)
    \/ \E r \in Requests : ReqSave(r)

SpecMaint == InitMaint /\ [][NextMaint]_vars

InitAsk ==
    /\ graphFile \in {AbsentFile} \cup {SavedFile(g) : g \in GraphSnapshots}
    /\ rpc = [r \in Requests |-> "done"]
    /\ rkind = [r \in Requests |-> "upload"]
    /\ rextraction = [r \in Requests |-> FailedExtraction]
    /\ rdata = [r \in Requests |-> _empty_extraction]
    /\ apiKeySet \in BOOLEAN
    /\ hasStore \in BOOLEAN
    /\ qn = 0
    /\ question = NoQuestion
    /\ hpc = "ask_idle"
    /\ events = <<>>
    /\ response = [kind |-> "none", len |-> 0, success |-> FALSE]
    /\ sent = 0
    /\ callLog = {}
    /\ ThreadIdle
    /\ loopReady = <<>>
    /\ progress_queue = <<>>
    /\ taskDone = FALSE
    /\ GenIdle

NextAsk ==
    \/ A_Receive
    \/ A_Route
    \/ A_Answer
    \/ A_Coa

SpecAsk == InitAsk /\ [][NextAsk]_vars

\* the files load_extracted may find
LoadFiles ==
    MaintFiles \cup {CorruptFile, UndecodableFile} \cup NonGraphFiles
    \cup {SavedFile(g) : g \in GraphSnapshots}

InitLoad ==
    /\ graphFile \in LoadFiles
    /\ rpc = [r \in Requests |-> "start"]
    /\ rkind \in [Requests -> ReadKinds]
    /\ rextraction = [r \in Requests |-> FailedExtraction]
    /\ rdata = [r \in Requests |-> _empty_extraction]
    /\ hpc = "off"
    /\ SessionOff

NextLoad == \E r \in Requests : ReqRead(r)

SpecLoad == InitLoad /\ [][NextLoad]_vars

\* claim lists detect_conflicts may be handed
ClaimLists ==
    { <<>>,
      <<Claim(<<"X">>, <<"a">>, "d1")>>,
      <<Claim(<<"X">>, <<"a">>, "d1"), Claim(<<"X">>, <<"b">>, "d2")>>,
      <<Claim(<<"X">>, <<"a">>, "d1"), Claim(<<"X">>, <<"a">>, "d2")>>,
      <<Claim(<<"X">>, <<"Bob">>, "d1"), Claim(<<"X">>, <<"bob">>, "d2")>>,
      <<Claim(<<"X">>, <<"a">>, "d1"), Claim(<<"X">>, <<"b">>, "d1")>>,
      <<Claim(<<>>, <<"a">>, "d1"), Claim(<<>>, <<"b">>, "d2")>>,
      <<Claim(<<"X">>, <<"a">>, "d1"), Claim(<<"Y">>, <<"c">>, "d1"),
        Claim(<<"x", "">>, <<"b">>, "d2")>>,
      <<Claim(<<"X">>, <<"a">>, "d1"), Claim(<<"Y">>, <<"c">>, "d1"),
        Claim(<<"X">>, <<"b">>, "d2"), Claim(<<"Y">>, <<"d">>, "d2")>> }

\* two requests, each about to run detect_conflicts over its own all_data
InitDetect ==
    /\ graphFile = AbsentFile
    /\ rpc = [r \in Requests |-> "detect"]
    /\ rkind = [r \in Requests |-> "upload"]
    /\ rextraction = [r \in Requests |-> FailedExtraction]
    /\ rdata \in [Requests -> {[_empty_extraction EXCEPT !.documents = <<"d1", "d2">>,
                                                         !.claims = cl] : cl \in ClaimLists}]
    /\ hpc = "off"
    /\ SessionOff

NextDetect ==
    \/ \E r \in Requests : ReqDetect(r)
    \/ \E r \in Requests : ReqSave(r)

SpecDetect == InitDetect /\ [][NextDetect]_vars


(***************************************************************************)
(* CLAIMS                                                                  *)
(***************************************************************************)

\* C1 (as stated): when two requests that update the graph have both
\* finished, the stored graph holds the document, the claims and the events
\* of each of them: no update is lost.
C1_NoLostUpdate ==
    (\A r \in Requests : rpc[r] = "done") =>
        LET stored == load_extracted(graphFile)
        IN \A r \in Requests :
              /\ ReqDoc(r) \in Range(stored.documents)
              /\ Range(rextraction[r].claims) \subseteq Range(stored.claims)
              /\ Range(rextraction[r].events) \subseteq Range(stored.events)

\* two uploads have both saved, each having extracted claims and events
C1_Witness ==
    /\ \A r \in Requests : rpc[r] = "done" /\ rkind[r] = "upload"
    /\ \A r \in Requests : rextraction[r].claims # <<>> /\ rextraction[r].events # <<>>

\* C2: among the events sent for one question, at most one stream_start and
\* at most one stream_end; every chunk comes after the stream_start and
\* before the stream_end; and once the handler has returned from a question
\* that delivered chunks, exactly one of each was sent, the stream_end last.
C2_StreamBracket ==
    LET starts == {k \in DOMAIN events : events[k].type = "stream_start"}
        ends == {k \in DOMAIN events : events[k].type = "stream_end"}
        chunks == {k \in DOMAIN events : events[k].type = "chunk"}
    IN /\ Cardinality(starts) <= 1
       /\ Cardinality(ends) <= 1
       /\ \A c \in chunks : (\E b \in starts : b < c) /\ (\A e \in ends : c < e)
       /\ \A e \in ends : \E b \in starts : b < e
       /\ (hpc = "idle" /\ chunks # {}) =>
             /\ Cardinality(starts) = 1
             /\ ends = {Len(events)}

\* a SPECIFIC question has delivered two chunks or more and has ended
C2_Witness ==
    /\ hpc = "idle"
    /\ "synthesis_stream" \in callLog
    /\ Cardinality({k \in DOMAIN events : events[k].type = "chunk"}) >= 2
    /\ events[Len(events)].type = "stream_end"

\* C3: the worker_progress events sent for one question carry pass indexes
\* in non-decreasing order.
C3_ProgressOrdered ==
    \A j, k \in DOMAIN events :
        (j < k /\ events[j].type = "worker_progress" /\ events[k].type = "worker_progress")
            => events[j].a <= events[k].a

\* the listener has received the progress of the last worker after at least
\* two earlier progress events
C3_Witness ==
    /\ \E k \in DOMAIN events : events[k].type = "worker_progress" /\ events[k].a = NWorkers
    /\ Cardinality({k \in DOMAIN events : events[k].type = "worker_progress"}) >= 3

\* C4 (as stated): the on_progress call for worker i happens after worker
\* i's search call has completed.
C4_ProgressAfterSearch ==
    \A k \in DOMAIN progressCalls :
        progressCalls[k].current >= 1 =>
            progressCalls[k].searchesDone >= progressCalls[k].current

\* C4 (amended): the k-th on_progress call carries current = k - 1; the call
\* for worker i is made when exactly the searches of workers 1..i-1 have
\* completed, before worker i's own search call is issued; and a run that
\* returns has made exactly n + 1 calls.
C4_ProgressBeforeSearch ==
    /\ \A k \in DOMAIN progressCalls :
          /\ progressCalls[k].current = k - 1
          /\ progressCalls[k].searchesDone = IF k = 1 THEN 0 ELSE k - 2
    /\ tpc = "search" => Len(progressCalls) = wi + 2
    /\ (tpc = "returned" /\ manager_input.built) => Len(progressCalls) = NWorkers + 1

\* a run has returned after its n + 1 on_progress calls
C4_Witness ==
    /\ tpc = "returned"
    /\ manager_input.built
    /\ Len(progressCalls) = NWorkers + 1

\* C5: the reduction input is built only from the outputs of all n_workers
\* workers, and while the synthesis is announced, in progress or being
\* delivered, the orchestrator has returned with every worker pass done.
C5_ReductionAfterAllWorkers ==
    /\ manager_input.built =>
          /\ Len(manager_input.outputs) = NWorkers
          /\ manager_input.outputs = worker_outputs
          /\ tpc = "returned"
    /\ (hpc \in {"synth", "chunks"} \/ gpc # "idle") =>
          /\ tpc = "returned"
          /\ wi = NWorkers
    /\ (\E k \in DOMAIN events : events[k] = Ev("stage", 0, 0, "synthesizing")) =>
          \/ tpc = "returned" /\ wi = NWorkers
          \/ hpc = "idle"

\* the synthesis call is in progress
C5_Witness ==
    /\ gpc = "streaming"
    /\ hpc = "synth"
    /\ spos > 0

\* C6: each collected worker output carries the search query of its pass,
\* a response that is not a JSON object being kept as {raw_text,
\* _search_query}; the run raises only when a search call itself threw; and
\* a run that returns has collected exactly n_workers entries.
C6_MalformedDegrades ==
    /\ \A i \in DOMAIN worker_outputs :
          /\ worker_outputs[i]._search_query = search_queries[i]
          /\ worker_outputs[i].parsed => worker_outputs[i].raw_text = ""
          /\ ~worker_outputs[i].parsed => worker_outputs[i].raw_text \in {"array", "prose"}
    /\ tpc = "raised" => threwAt # 0
    /\ (tpc = "returned" /\ manager_input.built) => Len(worker_outputs) = NWorkers

\* a run has returned with a parsed entry, a non-JSON entry and a JSON
\* non-object entry among its outputs
C6_Witness ==
    /\ tpc = "returned"
    /\ manager_input.built
    /\ \E i, j, k \in DOMAIN worker_outputs :
          /\ worker_outputs[i].parsed
          /\ worker_outputs[j].raw_text = "prose"
          /\ worker_outputs[k].raw_text = "array"

\* C7 (as stated): a search call that throws in one worker pass does not end
\* the run with an exception.
C7_WorkerErrorContained ==
    ~(tpc = "raised" /\ threwAt \in 1..NWorkers)

\* the search call of a worker after the first has thrown
C7_Witness ==
    /\ threwAt > 1
    /\ Len(worker_outputs) = threwAt - 1

\* C8 (as stated): whenever the generator has ended having obtained a text,
\* its fragments concatenate to the text of the non-streaming call.
C8_StreamEqualsBlocking ==
    (gpc = "done" /\ ~fallbackFailed) =>
        ConcatFragments(fragments) = TextOfLen(fullText)

\* the stream failed part-way through and the blocking call succeeded
C8_Witness ==
    /\ gpc = "done"
    /\ streamFailed
    /\ ~fallbackFailed
    /\ 0 < spos
    /\ spos < fullText

\* C9: the generator never raises; when the blocking call has failed too,
\* what it yields is what the stream had delivered followed by exactly one
\* failure fragment, the last; otherwise it yields no failure fragment.
C9_NeverRaises ==
    /\ gpc # "raised"
    /\ (gpc = "done" /\ fallbackFailed) =>
          /\ streamFailed
          /\ fragments # <<>>
          /\ fragments[Len(fragments)] = ErrFragment
          /\ ConcatFragments(SubSeq(fragments, 1, Len(fragments) - 1)) = TextOfLen(spos)
    /\ ~fallbackFailed => \A k \in DOMAIN fragments : ~fragments[k].err

\* both the streaming channel and the blocking call have failed
C9_Witness ==
    /\ gpc = "done"
    /\ streamFailed
    /\ fallbackFailed
    /\ fragments = <<ErrFragment>>

\* C10: whenever the orchestrator is about to call decompose_query for the
\* question at hand, for every outcome of the completion call the function
\* does not raise and returns n queries, and when the call threw or its text
\* did not parse they are n copies of the question with expanded = false;
\* and the queries the worker loop then reads are such a result.
C10_DecomposeTotal ==
    /\ tpc = "decompose" =>
          \A resp \in DecomposeResponses :
             LET d == decompose_query(question, NWorkers, resp)
                 failed == resp.throws \/ ~JsonLoads(StripCodeFence(resp.lines)).ok
             IN /\ ~d.raised
                /\ Len(d.queries) = NWorkers
                /\ (~d.called \/ failed) =>
                      /\ d.queries = Copies(OriginalQuery, NWorkers)
                      /\ ~d.expanded
    /\ tpc = "search" =>
          /\ Len(search_queries) = NWorkers
          /\ ~expanded => search_queries = Copies(OriginalQuery, NWorkers)

\* the completion service was called for the decomposition and the result
\* is the fail-open one
C10_Witness ==
    /\ tpc = "search"
    /\ "decompose" \in callLog
    /\ ~expanded
    /\ search_queries = Copies(OriginalQuery, NWorkers)

\* C11: for a question of fewer than 6 words with no multi-aspect
\* indicator, should_expand_query is false and, whatever the completion
\* service would answer, decompose_query returns n copies of the question
\* with expanded = false without calling it; the orchestrator's run for such
\* a question has issued no decomposition call.
C11_ShortPlainNotExpanded ==
    (question.nwords < 6 /\ ~question.indicator) =>
        /\ tpc = "decompose" =>
              /\ ~should_expand_query(question)
              /\ \A resp \in DecomposeResponses :
                    LET d == decompose_query(question, NWorkers, resp)
                    IN /\ d.queries = Copies(OriginalQuery, NWorkers)
                       /\ ~d.expanded
                       /\ ~d.called
                       /\ ~d.raised
        /\ tpc = "search" =>
              /\ search_queries = Copies(OriginalQuery, NWorkers)
              /\ ~expanded
              /\ "decompose" \notin callLog

\* the worker loop runs for a short question with capitalized names and no
\* indicator
C11_Witness ==
    /\ tpc = "search"
    /\ question # NoQuestion
    /\ question.nwords < 6
    /\ ~question.indicator
    /\ question.caps >= 2

\* C12 (as stated): should_expand_query is true for every question that has
\* an indicator, or 2 capitalized non-leading words, or 12 words.
C12_ExpandsOnAnyIndicator ==
    (tpc = "decompose"
       /\ (question.indicator \/ question.caps >= 2 \/ question.nwords >= 12))
        => should_expand_query(question)

\* C12 (amended): should_expand_query is false for every question of fewer
\* than 6 words, whatever it contains, and for a question of 6 words or more
\* it is true exactly when the question has an indicator, 2 capitalized
\* non-leading words or 12 words; the completion service is called for the
\* decomposition exactly when it is true.
C12_ExpandsOnlyLongEnough ==
    /\ tpc = "decompose" =>
          (should_expand_query(question) <=>
              /\ question.nwords >= 6
              /\ (question.indicator \/ question.caps >= 2 \/ question.nwords >= 12))
    /\ tpc = "search" =>
          ("decompose" \in callLog <=>
              /\ question.nwords >= 6
              /\ (question.indicator \/ question.caps >= 2 \/ question.nwords >= 12))

\* the worker loop runs, without a decomposition call, for a short question
\* that has an indicator
C12_Witness ==
    /\ tpc = "search"
    /\ question.nwords < 6
    /\ question.indicator
    /\ "decompose" \notin callLog

\* C13: a question that matches a comprehensive pattern is classified
\* EXHAUSTIVE for every graph, also when it matches entity-lookup patterns
\* with names no entity matches and deep-analysis patterns; the handler
\* never takes the worker path for it.
C13_ComprehensiveFirst ==
    question.comprehensive =>
        /\ hpc = "route" =>
              /\ classify_query(question, load_extracted(graphFile)) = "EXHAUSTIVE"
              /\ \A g \in GraphSnapshots : classify_query(question, g) = "EXHAUSTIVE"
        /\ hpc \in {"idle", "route", "graph_answer", "graph_chunks"}
        /\ \A k \in DOMAIN events : events[k] # Ev("stage", 0, 0, "workers")

\* a comprehensive question that is also an entity lookup with unmatched
\* names and a deep-analysis question is being answered from a graph that
\* has entities
C13_Witness ==
    /\ hpc = "graph_answer"
    /\ question.comprehensive
    /\ question.entityLookup
    /\ question.deep
    /\ question.names # <<>>
    /\ load_extracted(graphFile).entities # <<>>
    /\ _find_matching_entities(question.names, load_extracted(graphFile).entities) = <<>>

\* C14: for a question that matches no comprehensive pattern, matches an
\* entity-lookup pattern and has candidate names, classify_query returns
\* EXHAUSTIVE when a candidate and a known entity name are equal or the
\* words of one are among the words of the other (case ignored), and
\* SPECIFIC otherwise; the handler takes the path accordingly.
C14_EntityLookupByMatch ==
    (~question.comprehensive /\ question.entityLookup /\ question.names # <<>>) =>
        LET Matches(g) ==
                \E i \in DOMAIN question.names, j \in DOMAIN g.entities :
                    LET n == LowerText(question.names[i])
                        e == LowerText(g.entities[j].name)
                    IN \/ n = e
                       \/ Range(n) # {} /\ Range(n) \subseteq Range(e)
                       \/ Range(e) # {} /\ Range(e) \subseteq Range(n)
            stored == load_extracted(graphFile)
        IN /\ hpc = "route" =>
                 \A g \in GraphSnapshots \cup {stored} :
                     classify_query(question, g) =
                         IF Matches(g) THEN "EXHAUSTIVE" ELSE "SPECIFIC"
           /\ hpc \in {"graph_answer", "graph_chunks"} => Matches(stored)
           /\ hpc \in {"w_wait", "w_check", "await_task", "synth", "chunks"}
                 => ~Matches(stored)

\* "Who is Amanda Lynn Plasse?" is answered from a graph whose entity is
\* named "Amanda"
C14_Witness ==
    /\ hpc = "graph_answer"
    /\ ~question.comprehensive
    /\ question.entityLookup
    /\ \E i \in DOMAIN question.names : Len(question.names[i]) = 3
    /\ \E j \in DOMAIN load_extracted(graphFile).entities :
          load_extracted(graphFile).entities[j].name = <<"Amanda">>

\* C15 (as stated): an entity-lookup question with no comprehensive pattern
\* and no extractable name is classified EXHAUSTIVE for every graph.
C15_NoNameAlwaysExhaustive ==
    (hpc = "route" /\ ~question.comprehensive /\ question.entityLookup
       /\ question.names = <<>>) =>
        \A g \in GraphSnapshots \cup {load_extracted(graphFile)} :
            classify_query(question, g) = "EXHAUSTIVE"

\* C15 (amended): such a question is classified EXHAUSTIVE for every graph
\* whose entity list is not empty, and SPECIFIC for a graph with no entity.
C15_NoNameExhaustiveIfEntities ==
    (~question.comprehensive /\ question.entityLookup /\ question.names = <<>>) =>
        /\ hpc = "route" =>
              \A g \in GraphSnapshots \cup {load_extracted(graphFile)} :
                  classify_query(question, g) =
                      IF g.entities # <<>> THEN "EXHAUSTIVE" ELSE "SPECIFIC"
        /\ hpc \in {"graph_answer", "graph_chunks"} =>
              load_extracted(graphFile).entities # <<>>
        /\ hpc \in {"w_wait", "w_check", "await_task", "synth", "chunks"} =>
              load_extracted(graphFile).entities = <<>>

\* an entity lookup without a name is answered from a graph with entities
C15_Witness ==
    /\ hpc = "graph_answer"
    /\ ~question.comprehensive
    /\ question.entityLookup
    /\ question.names = <<>>
    /\ question # NoQuestion

\* C16: while and after a question is answered on the EXHAUSTIVE path, the
\* orchestrator has not been started for it, no decomposition call and no
\* search call has been issued, and no worker_progress event has been sent
\* or is pending.
C16_ExhaustiveNoSearch ==
    (hpc \in {"graph_answer", "graph_chunks"}
       \/ \E k \in DOMAIN events : events[k] = Ev("stage", 0, 0, "graph")) =>
        /\ tpc = "idle"
        /\ callLog \cap {"decompose", "search", "synthesis_stream", "synthesis_blocking"} = {}
        /\ \A k \in DOMAIN events : events[k].type # "worker_progress"
        /\ loopReady = <<>>
        /\ progress_queue = <<>>

\* an EXHAUSTIVE question has been answered from a graph with documents
C16_Witness ==
    /\ hpc = "idle"
    /\ "graph_synthesis" \in callLog
    /\ \E k \in DOMAIN events : events[k].type = "chunk"
    /\ events[Len(events)].type = "stream_end"

\* C17: whenever a request is about to merge its extraction, merging it a
\* second time into the result of the first merge leaves the entity list
\* with the same length and the same names, for the stored graph and for
\* every graph snapshot; and merging once more into the data a request has
\* merged adds no entity.
C17_MergeIdempotentOnEntities ==
    \A r \in Requests :
        /\ rpc[r] = "merge" =>
              \A g \in GraphSnapshots \cup {load_extracted(graphFile)} :
                  LET once == merge_extraction(g, rextraction[r], ReqDoc(r))
                      twice == merge_extraction(once, rextraction[r], ReqDoc(r))
                  IN /\ Len(twice.entities) = Len(once.entities)
                     /\ \A i \in DOMAIN once.entities :
                           twice.entities[i].name = once.entities[i].name
        /\ rpc[r] \in {"detect", "save"} =>
              Len(merge_extraction(rdata[r], rextraction[r], ReqDoc(r)).entities)
                  = Len(rdata[r].entities)

\* a request has merged an extraction of two entities, one of them into an
\* entity another document had contributed
C17_Witness ==
    \E r \in Requests :
        /\ rpc[r] = "detect"
        /\ Len(rextraction[r].entities) = 2
        /\ \E i \in DOMAIN rdata[r].entities : rdata[r].entities[i].source.isList
        /\ \E i \in DOMAIN rdata[r].entities :
              rdata[r].entities[i].source = StrSource(ReqDoc(r))

\* C18 (as stated): whenever a request is about to merge the extraction of a
\* document that the stored graph does not hold, removing the document from
\* the merged graph gives back the entities, claims and events of the
\* stored graph, and leaves no entity source, mention or description that
\* comes from the document.
C18_RemoveUndoesMerge ==
    \A r \in Requests :
        LET g == load_extracted(graphFile)
            D == ReqDoc(r)
            merged == merge_extraction(g, rextraction[r], D)
            removed == remove_document_extraction(SavedFile(merged), D)
        IN (rpc[r] = "merge" /\ D \notin Range(g.documents)) =>
              /\ removed.entities = g.entities
              /\ removed.claims = g.claims
              /\ removed.events = g.events
              /\ \A i \in DOMAIN removed.entities :
                    /\ D \notin Range(removed.entities[i].source.items)
                    /\ removed.entities[i].description.by # D
                    /\ \A m \in removed.entities[i].mentions : m[2] # D
              /\ \A i \in DOMAIN removed.key_facts : removed.key_facts[i].source # D

\* a request is about to merge, for a document the stored graph does not
\* hold, an entity that the graph already has from another document
C18_Witness ==
    \E r \in Requests :
        /\ rpc[r] = "merge"
        /\ ReqDoc(r) \notin Range(load_extracted(graphFile).documents)
        /\ \E i \in DOMAIN rextraction[r].entities :
              ExistingIndex(load_extracted(graphFile).entities,
                            _normalize_name(rextraction[r].entities[i].name)) # 0

\* the other request
OtherRequest(r) == CHOOSE o \in Requests : o # r

\* no two entities of the list have the same normalized name and type
NoDuplicateEntities(entities) ==
    \A i, j \in DOMAIN entities :
        i # j => ~ /\ _normalize_name(entities[i].name) = _normalize_name(entities[j].name)
                   /\ entities[i].type = entities[j].type

DocumentGone(all_data, d) ==
    /\ all_data.conflicts = <<>>
    /\ \A i \in DOMAIN all_data.claims : all_data.claims[i].source # d
    /\ \A i \in DOMAIN all_data.events : all_data.events[i].source # d
    /\ \A i \in DOMAIN all_data.key_facts : all_data.key_facts[i].source # d

\* C20 (as stated): right after a request has removed its document, by
\* remove_document_extraction (the first step of a re-extraction) or by the
\* delete endpoint, the stored graph has no conflicts and no claim, event or
\* key fact of that document.
C20_RemovalClearsGraph ==
    \A r \in Requests :
        /\ \/ rkind[r] = "reextract" /\ rpc[r] = "extract"
           \/ rkind[r] = "delete" /\ rpc[r] = "deleted"
        /\ rpc[OtherRequest(r)] = "start"
        => DocumentGone(load_extracted(graphFile), ReqDoc(r))

\* a document of the graph has been deleted through the endpoint
C20_Witness ==
    \E r \in Requests :
        /\ rkind[r] = "delete"
        /\ rpc[r] = "deleted"
        /\ rpc[OtherRequest(r)] = "start"
        /\ ReqDoc(r) \in Range(load_extracted(graphFile).documents)
        /\ load_extracted(graphFile).conflicts # <<>>

\* the conflicts of the heuristic pass in a detect_conflicts result
HeuristicPart(conflicts) ==
    SelectSeq(conflicts, LAMBDA c : c.type = "potential_inconsistency")

\* exactly one heuristic conflict is about subject X, and it lists both
\* claims and both sources
OneConflictFor(H, c1, c2) ==
    LET about == {k \in DOMAIN H : H[k].subject = SubjectKey(c1)}
    IN /\ Cardinality(about) = 1
       /\ \A k \in about :
             /\ {c1, c2} \subseteq Range(H[k].claims)
             /\ {c1.source, c2.source} \subseteq H[k].sources

\* C21 (as stated): once detect_conflicts has returned, fewer than two
\* claims give no conflict, no two heuristic conflicts are about the same
\* normalized subject, and any two claims with the same subject, different
\* claim texts and different sources give exactly one conflict for that
\* subject, listing both claims and both sources.
C21_OneConflictPerDifferingPair ==
    \A r \in Requests :
        rpc[r] = "save" =>
            LET claims == rdata[r].claims
                H == HeuristicPart(rdata[r].conflicts)
            IN /\ Len(claims) < 2 => rdata[r].conflicts = <<>>
               /\ \A i, j \in DOMAIN H : i # j => H[i].subject # H[j].subject
               /\ \A i, j \in DOMAIN claims :
                     (/\ i < j
                      /\ claims[i].subject = claims[j].subject
                      /\ claims[i].claim # claims[j].claim
                      /\ claims[i].source # claims[j].source)
                     => /\ OneConflictFor(H, claims[i], claims[j])
                        /\ Len(claims) = 2 => Len(H) = 1

\* C21 (amended): the same, for two claims whose subject is not empty once
\* normalized and whose claim texts differ when compared without regard to
\* case.
C21_OneConflictPerCaseDifferingPair ==
    \A r \in Requests :
        rpc[r] = "save" =>
            LET claims == rdata[r].claims
                H == HeuristicPart(rdata[r].conflicts)
            IN /\ Len(claims) < 2 => rdata[r].conflicts = <<>>
               /\ \A i, j \in DOMAIN H : i # j => H[i].subject # H[j].subject
               /\ \A i, j \in DOMAIN claims :
                     (/\ i < j
                      /\ claims[i].subject = claims[j].subject
                      /\ SubjectKey(claims[i]) # <<>>
                      /\ LowerText(claims[i].claim) # LowerText(claims[j].claim)
                      /\ claims[i].source # claims[j].source)
                     => /\ OneConflictFor(H, claims[i], claims[j])
                        /\ Len(claims) = 2 => Len(H) = 1

\* detect_conflicts has returned one conflict for two claims about X that
\* differ in text and source
C21_Witness ==
    \E r \in Requests :
        /\ rpc[r] = "save"
        /\ Len(rdata[r].claims) = 2
        /\ rdata[r].claims[1].source # rdata[r].claims[2].source
        /\ Len(HeuristicPart(rdata[r].conflicts)) = 1
        /\ HeuristicPart(rdata[r].conflicts)[1].sources = {"d1", "d2"}

\* C27 (as stated): once detect_conflicts has returned, every conflict of
\* the heuristic pass names at least two source documents.
C27_ConflictsCrossDocument ==
    \A r \in Requests :
        rpc[r] = "save" =>
            \A k \in DOMAIN rdata[r].conflicts :
                rdata[r].conflicts[k].type = "potential_inconsistency"
                => Cardinality(rdata[r].conflicts[k].sources) >= 2

\* detect_conflicts has returned a heuristic conflict
C27_Witness ==
    \E r \in Requests :
        /\ rpc[r] = "save"
        /\ HeuristicPart(rdata[r].conflicts) # <<>>

\* C30 (as stated): once detect_conflicts has returned, each conflict of the
\* semantic pass carries exactly the claims whose numbers in the prompt
\* (claim k of the sample is shown as number k) the service cited.
C30_CitedClaimsAttached ==
    \A r \in Requests :
        rpc[r] = "save" =>
            \A k \in DOMAIN rdata[r].conflicts :
                LET c == rdata[r].conflicts[k]
                    claims_sample == SubSeq(rdata[r].claims, 1, Min(Len(rdata[r].claims), 50))
                IN (/\ c.type # "potential_inconsistency"
                    /\ \A n \in Range(c.claim_indices) : n \in DOMAIN claims_sample)
                   => c.claims = [n \in DOMAIN c.claim_indices |->
                                     claims_sample[c.claim_indices[n]]]

\* the service cited two numbers of the prompt and the conflict came back
C30_Witness ==
    \E r \in Requests :
        /\ rpc[r] = "save"
        /\ \E k \in DOMAIN rdata[r].conflicts :
              /\ rdata[r].conflicts[k].type # "potential_inconsistency"
              /\ Len(rdata[r].conflicts[k].claim_indices) = 2
              /\ \A n \in Range(rdata[r].conflicts[k].claim_indices) :
                    n \in DOMAIN rdata[r].claims

\* C22 (as stated): once a request has called load_extracted on a file that
\* is absent or does not hold a well-formed graph document, the call has
\* returned, and what it returned is the empty shape.
C22_LoadNeverRaises ==
    \A r \in Requests :
        (/\ rkind[r] \in ReadKinds
         /\ rpc[r] # "start"
         /\ graphFile.state # "ok")
        => /\ LoadRaised(graphFile) = "none"
           /\ rdata[r] = _empty_extraction

\* a request has read a file that exists and is not a graph document
C22_Witness ==
    \E r \in Requests :
        /\ rkind[r] \in ReadKinds
        /\ rpc[r] # "start"
        /\ graphFile.state \in {"corrupt", "undecodable", "nongraph"}

\* the answer of /api/ask to an EXHAUSTIVE question is there
Answered == hpc = "ask_idle" /\ response.kind \in {"synth", "template"}

\* the Person entities of the stored graph
KnownPeople ==
    SelectSeq(load_extracted(graphFile).entities, LAMBDA e : LowerType(e.type) = "person")

\* C23 (as stated): when the entities renderer has answered a question whose
\* names match nothing in the graph, the answer is the 'no information
\* found' text, it is not a dossier, and every Person entity of the graph is
\* listed in it with its complete name.
C23_MissListsKnownPeople ==
    (/\ Answered
     /\ get_query_category(question, load_extracted(graphFile)) = "entities"
     /\ question.names # <<>>
     /\ _find_matching_entities(question.names, load_extracted(graphFile).entities) = <<>>)
    => /\ response.raw.kind = "no_information"
       /\ \A i \in DOMAIN KnownPeople :
             \E k \in DOMAIN response.raw.people :
                /\ response.raw.people[k].name = KnownPeople[i].name
                /\ response.raw.people[k].shown = NameLen(KnownPeople[i].name)

\* the renderer has answered a miss over a graph that knows a person
C23_Witness ==
    /\ Answered
    /\ response.raw.kind = "no_information"
    /\ KnownPeople # <<>>

\* the questions of AskQuestions that name no entity: "List all people
\* mentioned in the documents", its lower-case spelling, "list all
\* organizations in the files"
NamesNoEntity(q) == q.id \in {"list-people", "list-people-lower", "list-organizations"}

\* C24 (as stated): when the entities renderer has answered a question that
\* names no entity, the answer is not the 'no information found' text, and
\* when the graph has entities of the type the question asks for it is the
\* listing of those entities, deduplicated by lower-cased name.
C24_NoNameGivesListing ==
    (/\ Answered
     /\ NamesNoEntity(question)
     /\ get_query_category(question, load_extracted(graphFile)) = "entities")
    => LET ofType == SelectSeq(load_extracted(graphFile).entities,
                               LAMBDA e : LowerType(e.type) = Kw(question).type)
       IN /\ response.raw.kind # "no_information"
          /\ ofType # <<>> =>
                /\ response.raw.kind = "listing"
                /\ response.raw.entities = UniqueEntities(ofType, {})

\* "List all people mentioned in the documents" has been answered by the
\* entities renderer over a graph with a Person entity
C24_Witness ==
    /\ Answered
    /\ question.id = "list-people"
    /\ KnownPeople # <<>>

\* C25: when the synthesis call has failed, /api/ask has not answered 500:
\* answer_exhaustive_query has returned the rendered template, at its
\* length, and has reported success.
C25_SynthesisFailureKeepsTemplate ==
    (/\ hpc = "ask_idle"
     /\ response.kind \in {"synth", "template", "http500"}
     /\ "graph_synthesis" \in callLog
     /\ ~response.synthOk)
    => /\ response.kind = "template"
       /\ response.len = response.rawLen
       /\ response.success

\* a synthesis call has failed
C25_Witness ==
    /\ Answered
    /\ "graph_synthesis" \in callLog
    /\ ~response.synthOk
    /\ response.raw.kind \in {"listing", "dossier", "general"}

\* C26: when the state holds no vector_store_id, a question received over the
\* web socket produces exactly one event, an error carrying a message the
\* user can act on; no stage, worker_progress, stream_start, chunk or
\* stream_end event is sent, no completion or search call is issued, and
\* neither the pool thread nor the generator is started.
C26_NoStoreGivesOneError ==
    (qn > 0 /\ ~hasStore) =>
        /\ hpc = "idle"
        /\ Len(events) = 1
        /\ events[1].type = "error"
        /\ events[1].s \in {"upload documents first", "add your API key"}
        /\ callLog = {}
        /\ tpc = "idle"
        /\ gpc = "idle"

\* a question has been received with the API key set and no vector store
C26_Witness ==
    /\ qn > 0
    /\ apiKeySet
    /\ ~hasStore
    /\ events = <<Ev("error", 0, 0, "upload documents first")>>

\* the worker_progress events sent so far for the question
ProgressEvents == {k \in DOMAIN events : events[k].type = "worker_progress"}

\* C28: no progress notification is lost: when the handler has left its
\* progress-forwarding loop after a run that returned (the 'synthesizing'
\* stage event is the next one it sends), the progress queue is empty and
\* every on_progress call the orchestrator made has been delivered as a
\* worker_progress event.
C28_NoProgressLost ==
    (hpc = "await_task" /\ tpc = "returned") =>
        /\ progress_queue = <<>>
        /\ Cardinality(ProgressEvents) = Len(progressCalls)

\* the handler has left the loop after a run that made one on_progress call
\* for the analysis and one per worker, and has forwarded at least one
C28_Witness ==
    /\ hpc = "await_task"
    /\ tpc = "returned"
    /\ Len(progressCalls) = NWorkers + 1
    /\ ProgressEvents # {}

\* the terminal events sent so far for the question
TerminalEvents == {k \in DOMAIN events : events[k].type \in {"stream_end", "error"}}

\* among the events of one question: at most one terminal event, nothing
\* after it, no error after a stream_start and no stream_start after an
\* error; a handler that has returned has sent exactly one
OneTerminalEvent ==
    /\ Cardinality(TerminalEvents) <= 1
    /\ \A k \in TerminalEvents : k = Len(events)
    /\ \A j, k \in DOMAIN events :
          j < k => /\ ~(events[j].type = "stream_start" /\ events[k].type = "error")
                   /\ ~(events[j].type = "error" /\ events[k].type = "stream_start")
    /\ (hpc = "idle" /\ qn > 0) => Cardinality(TerminalEvents) = 1

=============================================================================
